---- MODULE Spec2Model ----
(***************************************************************************)
(* auto-cpufreq (Rust port): the policy engine of the daemon tick.         *)
(*                                                                         *)
(* One call of set_autofreq (core.rs) reads the charging state, the CPU    *)
(* usage and the 1-minute load, decides a governor                         *)
(* (get_appropriate_governor), writes it when it differs from the one the  *)
(* helper reports, and then decides turbo (set_turbo_based_on_usage).      *)
(*                                                                         *)
(* Numbers: cpu_usage is a percentage; load and the two load thresholds    *)
(* are in hundredths (the kernel reports the load average with two         *)
(* decimals, and (50*n)/100 and (75*n)/100 are exact in f32, so the f32    *)
(* comparisons of the code are the integer comparisons of the hundredths). *)
(* Temperatures are whole degrees Celsius.                                 *)
(*                                                                         *)
(* Around the tick: the daemon loop of main (update_stats_file,            *)
(* cpufreqctl, the first-run sysinfo, set_autofreq, countdown), the        *)
(* configuration store (get_threshold, set_path, the file watcher), the    *)
(* CachedSystem staleness rule and the two override commands; the vendor   *)
(* battery managers (battery/), install_daemon and remove_daemon with the  *)
(* start of main, the battery path cache with battery_info and charging,   *)
(* the temperature sensor cache, and the threshold reads of battery setup  *)
(* beside the file watcher. Each has its own specification over the same   *)
(* variables.                                                              *)
(***************************************************************************)
EXTENDS Integers, Sequences, FiniteSets, TLC

VARIABLES
    available_governors,     \* AVAILABLE_GOVERNORS: the kernel's list, in the kernel's order
    cpu_count,               \* num_cpus::get()
    governor_override_file,  \* /opt/auto-cpufreq/override.pickle
    turbo_override_file,     \* /opt/auto-cpufreq/turbo-override.pickle
    config,                  \* CONFIG snapshot: (section, key) -> value or NoOption
    scaling_governor,        \* cpu0/cpufreq/scaling_governor
    turbo_files,             \* the turbo control files that exist
    turbo_file_value,        \* content (0/1) of the control file turbo() selects
    core_temps,              \* what read_core_temp(i) yields for each core, 0 = no reading
    pc,                      \* position of the daemon thread
    held,                    \* mutexes the daemon thread holds
    is_charging,             \* locals of the running/last set_autofreq call
    cpu_usage,
    load,
    target_governor,
    current_governor,
    governor_write,          \* governor handed to set_governor in this call, or "none"
    turbo_write,             \* set_turbo call of this call: "on", "off" or "none"
    reached,                 \* how far the call got
    result,                  \* what set_autofreq returned: "Ok", "Err" or "none"
    governor_status,         \* how the helper run of set_governor ended, or "none"
    turbo_outcome,           \* what turbo(Some(value)) did in this call, or "none"
    held_most,               \* the mutexes the last operation held at one time, at most
    helper_deployed,         \* /usr/local/bin/cpufreqctl.auto-cpufreq exists
    first_run_done,          \* the FIRST_RUN Once of the daemon loop has run
    stats_file,              \* /var/run/auto-cpufreq.stats: NoFile or what the last write reported
    stats_result,            \* what update_stats_file returned in this tick: "Ok", "Err", "none"
    threshold_mode,          \* the last get_threshold call: its mode,
    threshold_status,        \*   "Ok" or the error it returned,
    threshold_value,         \*   and the u8 of an Ok
    clock,                   \* monotonic time, in units of 200 ms
    last_refresh,            \* CachedSystem.last_refresh
    calls,                   \* the last get_refreshed_system calls, newest first
    config_file,             \* the watched configuration file: NoFile or its lines
    events,                  \* file events notify has queued for the watcher callback
    watcher,                 \* the watcher thread: position and the Ini it is loading
    set_path_result,         \* what CONFIG.set_path returned: "Ok", "Err" or "none"
    observed,                \* the snapshot the last accessor call ran against
    last_reload,             \* the last reload that ended: who ran it and how it went
    override_call,           \* the last set_override call: value and result
    turbo_override_call,     \* the last set_turbo_override call: value and result
    modules,                 \* the kernel modules that are loaded (the names lsmod lists)
    programs,                \* the external programs that can be started
    enable_thresholds,       \* [battery] enable_thresholds, or NoOption
    conservation_option,     \* [battery] ideapad_laptop_conservation_mode, or NoOption
    power_supply,            \* /sys/class/power_supply: its state and its BAT<n> entries
    threshold_layout,        \* per mode, the threshold files a battery directory has
    conservation_file,       \* content of the conservation_mode toggle, or NoFile
    battery_call,            \* the last battery_setup / battery_get_thresholds call
    pid1,                    \* the command name of process 1, as ps prints it
    os_release,              \* ID of /etc/os-release, or NoFile
    writable,                \* the directories the program can write to
    tools_run,               \* chmod, sh and the tools of the init system can be started
    user_config,             \* the user's auto-cpufreq.conf is a file
    service,                 \* the daemon's service: unit file, runit link, start asked
    install_call,            \* the last install_daemon / remove_daemon call
    process,                 \* the command-line process: position and who ended it
    lookup,                  \* the last find_config_file call
    supplies,                \* /sys/class/power_supply: the battery and mains devices
    path_cache,              \* BATTERY_PATH_CACHE
    uptime,                  \* monotonic time, in units of 20 s
    power_call,              \* the last get_battery_path / battery_info / charging call
    setup_pass,              \* the threshold reads of the battery setup that main runs
    hwmon,                   \* the temperature files of the first known hwmon sensor
    temp_cache,              \* TEMP_CACHE
    temp_call                \* the last read_cpu_temperature / read_package_temperature call

vars == <<available_governors, cpu_count, governor_override_file, turbo_override_file,
          config, scaling_governor, turbo_files, turbo_file_value, core_temps, pc, held,
          is_charging, cpu_usage, load, target_governor, current_governor,
          governor_write, turbo_write, reached, result, governor_status, turbo_outcome,
          held_most, helper_deployed, first_run_done, stats_file, stats_result,
          threshold_mode, threshold_status, threshold_value, clock, last_refresh, calls,
          config_file, events, watcher, set_path_result, observed, last_reload,
          override_call,
          turbo_override_call, modules, programs, enable_thresholds, conservation_option,
          power_supply, threshold_layout, conservation_file, battery_call, pid1,
          os_release, writable, tools_run, user_config, service, install_call, process,
          lookup, supplies, path_cache, uptime, power_call, setup_pass, hwmon,
          temp_cache, temp_call>>

environment == <<available_governors, cpu_count, governor_override_file,
                 turbo_override_file, config, turbo_files, core_temps>>

locals == <<is_charging, cpu_usage, load, target_governor, current_governor>>

\* what neither a reload nor an override command touches
hardware == <<available_governors, cpu_count, turbo_files, core_temps>>

\* the state of the components, one tuple each
tick_vars == <<scaling_governor, turbo_file_value, pc, held, locals, governor_write,
               turbo_write, reached, result, governor_status, turbo_outcome, held_most>>

loop_vars == <<helper_deployed, first_run_done, stats_file, stats_result>>

threshold_vars == <<threshold_mode, threshold_status, threshold_value>>

cache_vars == <<clock, last_refresh, calls>>

reload_vars == <<config_file, events, watcher, set_path_result, observed, last_reload>>

override_vars == <<override_call, turbo_override_call>>

\* what the battery managers read and never change
battery_environment == <<modules, programs, enable_thresholds, conservation_option,
                         power_supply, threshold_layout>>

battery_vars == <<battery_environment, conservation_file, battery_call>>

\* what install_daemon and remove_daemon read and never change
install_environment == <<pid1, os_release, writable, tools_run, user_config>>

install_vars == <<install_environment, service, install_call, process, lookup>>

power_vars == <<supplies, path_cache, uptime, power_call>>

sensor_vars == <<hwmon, temp_cache, temp_call>>

\* the components around the daemon: battery managers, installer, power supplies,
\* temperature sensors
peripheral_vars == <<battery_vars, install_vars, power_vars, sensor_vars, setup_pass>>

(***************************************************************************)
(* Bounds and input sets                                                   *)
(***************************************************************************)
MaxCores == 4

\* a single-core machine and the largest one
CoreCounts == {1, MaxCores}

\* around the policy's thresholds 25, 50 and 75
UsageValues == {10, 25, 50, 60, 75, 76}

\* around the two load thresholds of an n-core machine
LoadValues(n) == {20, 50 * n, 50 * n + 1, 75 * n}

\* cores of the machines whose temperatures are enumerated
TurboCores == 2

\* no reading, and one reading on each side of the 75 degree limit
TempValues == {0, 70, 80}

\* core 1 reads a, every other core reads b
TempProfiles(n) == {[i \in 1..n |-> IF i = 1 THEN a ELSE b] : a, b \in TempValues}

NoFile == "<no file>"

Unreadable == "<unreadable>"

NoOption == "<no option>"

Range(s) == {s[i] : i \in 1..Len(s)}

(***************************************************************************)
(* globals.rs                                                              *)
(***************************************************************************)
ALL_GOVERNORS ==
    <<"performance", "ondemand", "conservative", "schedutil", "userspace", "powersave">>

\* mutant: the kernel's order is kept
sort_governors_kernel_order(available) ==
    SelectSeq(available, LAMBDA gov : gov \in Range(ALL_GOVERNORS))

sort_governors(available) ==
    SelectSeq(ALL_GOVERNORS, LAMBDA gov : gov \in Range(available))

AVAILABLE_GOVERNORS_SORTED == sort_governors(available_governors)

contains(seq, g) == g \in Range(seq)

(***************************************************************************)
(* AutoCpuFreqState::new                                                   *)
(***************************************************************************)
performance_load_threshold == 50 * cpu_count

powersave_load_threshold == 75 * cpu_count

(***************************************************************************)
(* Override files                                                          *)
(***************************************************************************)
trim(s) ==
    CASE s = "performance\n" -> "performance"
      [] s = "powersave\n"   -> "powersave"
      [] s = "never\n"       -> "never"
      [] OTHER               -> s

GovernorOverride_from_str(s) ==
    CASE s = "powersave"   -> "Powersave"
      [] s = "performance" -> "Performance"
      [] OTHER             -> "Default"

get_override ==
    IF governor_override_file # NoFile
      THEN IF governor_override_file = Unreadable
             THEN "Default"
             ELSE GovernorOverride_from_str(trim(governor_override_file))
      ELSE "Default"

\* mutant: the two tokens are swapped
TurboOverride_from_str_swapped(s) ==
    CASE s = "never"  -> "Always"
      [] s = "always" -> "Never"
      [] OTHER        -> "Auto"

TurboOverride_from_str(s) ==
    CASE s = "never"  -> "Never"
      [] s = "always" -> "Always"
      [] OTHER        -> "Auto"

get_turbo_override ==
    IF turbo_override_file # NoFile
      THEN IF turbo_override_file = Unreadable
             THEN "Auto"
             ELSE TurboOverride_from_str(trim(turbo_override_file))
      ELSE "Auto"

(***************************************************************************)
(* Config accessors (config.rs)                                            *)
(***************************************************************************)
ConfigKeys == {"charger", "battery"} \X {"governor", "turbo"}

has_option(section, key) == config[<<section, key>>] # NoOption

get(section, key, fallback) ==
    IF config[<<section, key>>] # NoOption THEN config[<<section, key>>] ELSE fallback

(***************************************************************************)
(* get_appropriate_governor (core.rs)                                      *)
(***************************************************************************)
\* mutant: the last resort is 'schedutil' whatever the kernel supports
always_schedutil == "schedutil"

\* AVAILABLE_GOVERNORS_SORTED.first(), 'schedutil' when the list is empty
first_or_schedutil ==
    IF Len(AVAILABLE_GOVERNORS_SORTED) > 0 THEN AVAILABLE_GOVERNORS_SORTED[1] ELSE "schedutil"

\* mutant: the configured governor is not checked against the supported ones
config_governor_unchecked(section) ==
    IF has_option(section, "governor") /\ get(section, "governor", "") # ""
      THEN get(section, "governor", "")
      ELSE "none"

\* the governor the section configures and the kernel supports, or "none"
config_governor(section) ==
    IF has_option(section, "governor")
      THEN LET gov == get(section, "governor", "")
           IN  IF gov # "" /\ contains(AVAILABLE_GOVERNORS_SORTED, gov) THEN gov ELSE "none"
      ELSE "none"

\* mutant: usage and load must both be high
charging_governor_both_high(usage, l) ==
    IF (usage > 50 /\ l > performance_load_threshold)
          /\ contains(AVAILABLE_GOVERNORS_SORTED, "performance")
      THEN "performance"
      ELSE IF contains(AVAILABLE_GOVERNORS_SORTED, "schedutil") THEN "schedutil"
      ELSE IF contains(AVAILABLE_GOVERNORS_SORTED, "ondemand") THEN "ondemand"
      ELSE first_or_schedutil

charging_governor(usage, l) ==
    IF (usage > 50 \/ l > performance_load_threshold)
          /\ contains(AVAILABLE_GOVERNORS_SORTED, "performance")
      THEN "performance"
      ELSE IF contains(AVAILABLE_GOVERNORS_SORTED, "schedutil") THEN "schedutil"
      ELSE IF contains(AVAILABLE_GOVERNORS_SORTED, "ondemand") THEN "ondemand"
      ELSE first_or_schedutil

\* mutant: low usage or low load is enough
battery_governor_either_low(usage, l) ==
    IF (usage < 25 \/ l < powersave_load_threshold)
          /\ contains(AVAILABLE_GOVERNORS_SORTED, "powersave")
      THEN "powersave"
      ELSE IF contains(AVAILABLE_GOVERNORS_SORTED, "schedutil") THEN "schedutil"
      ELSE first_or_schedutil

battery_governor(usage, l) ==
    IF (usage < 25 /\ l < powersave_load_threshold)
          /\ contains(AVAILABLE_GOVERNORS_SORTED, "powersave")
      THEN "powersave"
      ELSE IF contains(AVAILABLE_GOVERNORS_SORTED, "schedutil") THEN "schedutil"
      ELSE first_or_schedutil

\* mutant: the configuration is consulted before the override
get_appropriate_governor_config_first(charging, usage, l) ==
    IF charging /\ config_governor("charger") # "none" THEN config_governor("charger")
    ELSE IF ~charging /\ config_governor("battery") # "none" THEN config_governor("battery")
    ELSE IF get_override = "Performance" THEN "performance"
    ELSE IF get_override = "Powersave" THEN "powersave"
    ELSE IF charging THEN charging_governor(usage, l)
    ELSE battery_governor(usage, l)

get_appropriate_governor(charging, usage, l) ==
    IF get_override = "Performance" THEN "performance"
    ELSE IF get_override = "Powersave" THEN "powersave"
    ELSE IF charging /\ config_governor("charger") # "none" THEN config_governor("charger")
    ELSE IF ~charging /\ config_governor("battery") # "none" THEN config_governor("battery")
    ELSE IF charging THEN charging_governor(usage, l)
    ELSE battery_governor(usage, l)

(***************************************************************************)
(* Helper program and sysfs                                                *)
(***************************************************************************)
\* get_current_gov().unwrap_or("unknown"): the first word the helper prints
get_current_gov(helper_runs) ==
    IF helper_runs /\ scaling_governor # "" THEN scaling_governor ELSE "unknown"

\* mutant: the governor is written in every tick
governor_write_always(target, current) == TRUE

\* set_autofreq writes the governor only when the target is not the current one
governor_write_needed(target, current) == target # current

\* turbo(): the first control file that exists
control_file ==
    IF "no_turbo" \in turbo_files THEN "no_turbo"
    ELSE IF "boost" \in turbo_files THEN "boost"
    ELSE IF "amd_pstate" \in turbo_files THEN "amd_pstate"
    ELSE "none"

\* mutant: the value is written as it is, for intel_pstate/no_turbo too
turbo_write_val_plain(value) == IF value THEN 1 ELSE 0

\* what turbo(Some(value)) writes into the control file
turbo_write_val(value) ==
    LET inverse   == (control_file = "no_turbo")
        write_val == IF inverse THEN ~value ELSE value
    IN  IF write_val THEN 1 ELSE 0

\* the ways turbo(Some(value)) can go, by the control file it selects
turbo_outcomes(file) ==
    IF file = "none" THEN {"unavailable"}
    ELSE IF file = "amd_pstate" THEN {"amd status read", "amd status unreadable"}
    ELSE {"write failed", "written", "read back failed"}

\* the Result of turbo(): Err from the two reads with `?`, Ok otherwise
turbo_returns(outcome) ==
    IF outcome \in {"amd status unreadable", "read back failed"} THEN "Err" ELSE "Ok"

\* what the last turbo(Some(value)) call returned: Ok((current != 0) ^ inverse) after a
\* write and a read back, Ok(false) without a control file or after a refused write,
\* Err from a read that failed
turbo_result ==
    IF turbo_returns(turbo_outcome) = "Err" THEN "Err"
    ELSE IF turbo_outcome = "written"
              /\ (turbo_file_value # 0) # (control_file = "no_turbo") THEN "Ok(true)"
    ELSE "Ok(false)"

\* SystemInfo::turbo_on().0 while the control file can be read: no_turbo holds 0, or
\* boost holds something else
turbo_on ==
    IF "no_turbo" \in turbo_files
      THEN IF turbo_file_value = 0 THEN "Some(true)" ELSE "Some(false)"
    ELSE IF "boost" \in turbo_files
      THEN IF turbo_file_value # 0 THEN "Some(true)" ELSE "Some(false)"
    ELSE "None"

\* mutant: set_turbo hands the Result of turbo() to its caller, who propagates it
set_turbo_propagates(outcome) == turbo_returns(outcome)

\* what the caller of set_turbo sees: `let _ = turbo(Some(value))` drops the Result
set_turbo_returns(outcome) == "Ok"

\* set_turbo(value): turbo(Some(value)), its result dropped
set_turbo(value) ==
    /\ turbo_write' = IF value THEN "on" ELSE "off"
    /\ \E outcome \in turbo_outcomes(control_file) :
         /\ turbo_outcome' = outcome
         /\ turbo_file_value' = IF outcome \in {"written", "read back failed"}
                                  THEN turbo_write_val(value)
                                  ELSE turbo_file_value

(***************************************************************************)
(* set_turbo_based_on_usage, called by set_autofreq while the caller still *)
(* holds the CACHED_SYSTEM guard                                           *)
(***************************************************************************)
RECURSIVE sum_temps(_, _)
sum_temps(temps, n) == IF n = 0 THEN 0 ELSE temps[n] + sum_temps(temps, n - 1)

\* the readings the average is taken over: those > 0
warm_cores(temps) == {i \in DOMAIN temps : temps[i] > 0}

warm_sum(temps) == sum_temps([i \in DOMAIN temps |-> IF temps[i] > 0 THEN temps[i] ELSE 0],
                             Cardinality(DOMAIN temps))

\* avg_temp < 75, with avg_temp = 0 when no core has a reading
avg_temp_below_75(temps) ==
    IF warm_cores(temps) # {} THEN warm_sum(temps) < 75 * Cardinality(warm_cores(temps))
                              ELSE TRUE

returns_ok(how) ==
    /\ reached' = how
    /\ result' = set_turbo_returns(turbo_outcome')
    /\ pc' = "returned"
    /\ held' = {}

automatic_turbo(usage, charging) ==
    /\ IF charging
         THEN IF usage > 25 /\ avg_temp_below_75(core_temps) THEN set_turbo(TRUE)
              ELSE IF ~avg_temp_below_75(core_temps) THEN set_turbo(FALSE)
              ELSE UNCHANGED <<turbo_write, turbo_file_value, turbo_outcome>>
         ELSE IF usage > 75 THEN set_turbo(TRUE) ELSE set_turbo(FALSE)
    /\ returns_ok("turbo_automatic")

\* mutant: the power source is not looked at, the charger section comes first
config_turbo_either_section(charging) ==
    IF has_option("charger", "turbo") /\ get("charger", "turbo", "auto") \in {"always", "never"}
      THEN get("charger", "turbo", "auto")
    ELSE IF has_option("battery", "turbo")
          /\ get("battery", "turbo", "auto") \in {"always", "never"}
      THEN get("battery", "turbo", "auto")
    ELSE "none"

\* "always" or "never" when the section of the active power source says so, else "none"
config_turbo(charging) ==
    IF has_option("charger", "turbo") /\ charging
          /\ get("charger", "turbo", "auto") \in {"always", "never"}
      THEN get("charger", "turbo", "auto")
    ELSE IF has_option("battery", "turbo") /\ ~charging
          /\ get("battery", "turbo", "auto") \in {"always", "never"}
      THEN get("battery", "turbo", "auto")
    ELSE "none"

set_turbo_based_on_usage(usage, charging, held_by_caller) ==
    IF get_turbo_override = "Always" THEN set_turbo(TRUE) /\ returns_ok("turbo_override")
    ELSE IF get_turbo_override = "Never" THEN set_turbo(FALSE) /\ returns_ok("turbo_override")
    ELSE IF config_turbo(charging) # "none"
      THEN set_turbo(config_turbo(charging) = "always") /\ returns_ok("turbo_config")
    ELSE IF "CACHED_SYSTEM" \in held_by_caller
      \* CACHED_SYSTEM.lock() on a std::sync::Mutex this thread already holds:
      \* the call never returns, it blocks forever or panics
      THEN /\ reached' = "turbo_automatic"
           /\ result' = "none"
           /\ UNCHANGED <<turbo_write, turbo_file_value, turbo_outcome>>
           /\ \/ pc' = "deadlock" /\ held' = held_by_caller
              \/ pc' = "panicked" /\ held' = {}
      ELSE automatic_turbo(usage, charging)

(***************************************************************************)
(* set_autofreq                                                            *)
(***************************************************************************)
\* mutant: only a helper that cannot be run is an error, its exit status is not looked at
set_governor_ignores_exit(status) == IF status = "spawn error" THEN "Err" ELSE "Ok"

\* the Result of set_governor: Err when the helper cannot be run or exits non-zero
set_governor_returns(status) == IF status = "success" THEN "Ok" ELSE "Err"

\* the ways the helper run of set_governor can end
HelperStatuses == {"success", "nonzero", "spawn error"}

\* the mutexes held together while the policy runs: the caller's CACHED_SYSTEM guard and,
\* inside CONFIG.has_option / CONFIG.get, the mutex of the config snapshot
locks_during_policy(turbo_decided) ==
    {"CACHED_SYSTEM"}
      \cup (IF get_override = "Default" \/ (turbo_decided /\ get_turbo_override = "Auto")
             THEN {"CONFIG.config"} ELSE {})

set_autofreq ==
    /\ pc = "idle"
    /\ held = {}
    /\ \/ \* charging()? fails
          /\ reached' = "charging"
          /\ result' = "Err"
          /\ pc' = "returned"
          /\ held_most' = {}
          /\ UNCHANGED <<locals, governor_write, turbo_write, held, governor_status,
                         turbo_outcome, scaling_governor, turbo_file_value>>
       \/ \E charging \in BOOLEAN, usage \in UsageValues, l \in LoadValues(cpu_count),
             helper_runs \in BOOLEAN :
            LET target  == get_appropriate_governor(charging, usage, l)
                current == get_current_gov(helper_runs)
            IN  /\ is_charging' = charging
                /\ cpu_usage' = usage
                /\ load' = l
                /\ target_governor' = target
                /\ current_governor' = current
                /\ IF governor_write_needed(target, current)
                     THEN /\ governor_write' = target
                          /\ \E status \in HelperStatuses :
                               /\ governor_status' = status
                               /\ scaling_governor' =
                                     IF status = "success"
                                        /\ contains(available_governors, target)
                                       THEN target ELSE scaling_governor
                               /\ IF set_governor_returns(status) = "Ok"
                                    THEN /\ held_most' = locks_during_policy(TRUE)
                                         /\ set_turbo_based_on_usage(usage, charging,
                                                                     {"CACHED_SYSTEM"})
                                    ELSE /\ reached' = "set_governor"
                                         /\ result' = "Err"
                                         /\ pc' = "returned"
                                         /\ held' = {}
                                         /\ held_most' = locks_during_policy(FALSE)
                                         /\ UNCHANGED <<turbo_write, turbo_file_value,
                                                        turbo_outcome>>
                     ELSE /\ governor_write' = "none"
                          /\ governor_status' = "none"
                          /\ held_most' = locks_during_policy(TRUE)
                          /\ UNCHANGED scaling_governor
                          /\ set_turbo_based_on_usage(usage, charging, {"CACHED_SYSTEM"})
    /\ UNCHANGED <<environment, loop_vars, threshold_vars, cache_vars, reload_vars,
                   override_vars, peripheral_vars>>

\* the locals of the call are gone when the loop goes round
next_tick(position) ==
    /\ pc = "returned"
    /\ pc' = position
    /\ is_charging' = FALSE
    /\ cpu_usage' = 0
    /\ load' = 0
    /\ target_governor' = "none"
    /\ current_governor' = "none"
    /\ governor_write' = "none"
    /\ turbo_write' = "none"
    /\ reached' = "none"
    /\ result' = "none"
    /\ governor_status' = "none"
    /\ turbo_outcome' = "none"
    /\ held_most' = {}
    /\ stats_result' = "none"
    /\ UNCHANGED <<environment, scaling_governor, turbo_file_value, held, helper_deployed,
                   first_run_done, stats_file, threshold_vars, cache_vars, reload_vars,
                   override_vars, peripheral_vars>>

\* the policy on its own: after countdown(2) set_autofreq is called again
countdown == next_tick("idle")

Next == set_autofreq \/ countdown

(***************************************************************************)
(* The daemon loop of main (bin/auto_cpufreq.rs)                           *)
(***************************************************************************)
\* what turbo(None) reports: "On", "Off", or "absent" when it returns Err
turbo_states(file) ==
    IF file = "none" THEN {"Off"}
    ELSE IF file = "amd_pstate" THEN {"Off", "absent"}
    ELSE {IF (turbo_file_value # 0) # (file = "no_turbo") THEN "On" ELSE "Off", "absent"}

\* update_stats_file: its Err is printed by the loop, which goes on
update_stats_file ==
    /\ pc = "update_stats_file"
    /\ pc' = "cpufreqctl"
    /\ \/ \* fs::create_dir_all(parent)? fails
          /\ stats_result' = "Err"
          /\ held_most' = {}
          /\ UNCHANGED stats_file
       \/ \E helper_runs \in BOOLEAN, turbo_state \in turbo_states(control_file),
             write_ok \in BOOLEAN :
            /\ held_most' = {"CACHED_SYSTEM"}
            /\ stats_result' = IF write_ok THEN "Ok" ELSE "Err"
            /\ stats_file' =
                  IF write_ok
                    THEN [governor |-> IF get_current_gov(helper_runs) = "unknown"
                                         THEN "absent" ELSE get_current_gov(helper_runs),
                          turbo    |-> turbo_state]
                    ELSE stats_file
    /\ UNCHANGED <<environment, scaling_governor, turbo_file_value, held, locals,
                   governor_write, turbo_write, reached, result, governor_status,
                   turbo_outcome, helper_deployed, first_run_done, threshold_vars,
                   cache_vars, reload_vars, override_vars, peripheral_vars>>

\* the ways deploying the helper can go when it is not installed yet
DeployOutcomes == {"deployed", "copy failed", "chmod not run"}

\* cpufreqctl()?: an Err leaves the loop and main
cpufreqctl ==
    /\ pc = "cpufreqctl"
    /\ IF helper_deployed
         THEN pc' = "first_run" /\ UNCHANGED helper_deployed
         ELSE \E outcome \in DeployOutcomes :
                /\ helper_deployed' = (outcome # "copy failed")
                /\ pc' = IF outcome = "deployed" THEN "first_run" ELSE "exited"
    /\ held_most' = {}
    /\ UNCHANGED <<environment, scaling_governor, turbo_file_value, held, locals,
                   governor_write, turbo_write, reached, result, governor_status,
                   turbo_outcome, first_run_done, stats_file, stats_result,
                   threshold_vars, cache_vars, reload_vars, override_vars, peripheral_vars>>

\* FIRST_RUN.call_once: distro_info and sysinfo, their results dropped. sysinfo keeps
\* the CACHED_SYSTEM guard while read_cpu_temperature and read_package_temperature
\* lock TEMP_CACHE
first_run ==
    /\ pc = "first_run"
    /\ pc' = "idle"
    /\ first_run_done' = TRUE
    /\ IF first_run_done
         THEN held_most' = {}
         ELSE \E cpuinfo_read \in BOOLEAN :
                held_most' = IF cpuinfo_read THEN {"CACHED_SYSTEM", "TEMP_CACHE"} ELSE {}
    /\ UNCHANGED <<environment, scaling_governor, turbo_file_value, held, locals,
                   governor_write, turbo_write, reached, result, governor_status,
                   turbo_outcome, helper_deployed, stats_file, stats_result,
                   threshold_vars, cache_vars, reload_vars, override_vars, peripheral_vars>>

\* countdown(2), then the loop body again
loop_countdown == next_tick("update_stats_file")

NextLoop == update_stats_file \/ cpufreqctl \/ first_run \/ set_autofreq \/ loop_countdown

(***************************************************************************)
(* Config::get_int and Config::get_threshold (config/config.rs)            *)
(***************************************************************************)
\* str::parse::<i32> on the stored texts of the model: an optional sign and decimal
\* digits that fit 32 bits; every other text is a ParseIntError
Int32Of ==
    ("0" :> 0) @@ ("1" :> 1) @@ ("50" :> 50) @@ ("99" :> 99) @@ ("100" :> 100)
      @@ ("101" :> 101) @@ ("255" :> 255) @@ ("256" :> 256) @@ ("+7" :> 7)
      @@ ("-1" :> -1) @@ ("-156" :> -156) @@ ("2147483647" :> 2147483647)

NotInt32 == {"", "abc", "50.5", "2147483648", "1e2"}

\* what the battery section can hold under a threshold key
StoredThresholds == {NoOption} \cup DOMAIN Int32Of \cup NotInt32

ThresholdKeys == {<<"battery", "charging_start_threshold">>,
                  <<"battery", "charging_stop_threshold">>}

ThresholdModes == {"start", "stop", "both"}

\* get_string under the config lock: the stored text, or NoOption for None
get_string(section, key) == config[<<section, key>>]

\* get_int: "None", "Some" or "ParseIntError"
get_int_kind(section, key) ==
    IF get_string(section, key) = NoOption THEN "None"
    ELSE IF get_string(section, key) \in DOMAIN Int32Of THEN "Some"
    ELSE "ParseIntError"

\* the i32 of a Some
get_int(section, key) == Int32Of[get_string(section, key)]

threshold_key(mode) ==
    IF mode = "start" THEN "charging_start_threshold" ELSE "charging_stop_threshold"

\* mutant: only the upper end of the range is checked
threshold_in_range_upper_only(v) == v <= 100

\* the match guard of get_threshold
threshold_in_range(v) == v >= 0 /\ v <= 100

\* `v as u8`
as_u8(v) == v % 256

get_threshold(mode) ==
    /\ threshold_mode' = mode
    /\ IF mode \notin {"start", "stop"}
         THEN threshold_status' = "invalid mode" /\ threshold_value' = 0
         ELSE LET kind == get_int_kind("battery", threshold_key(mode))
              IN  IF kind = "ParseIntError"
                    THEN threshold_status' = "parse error" /\ threshold_value' = 0
                  ELSE IF kind = "None"
                    THEN /\ threshold_status' = "Ok"
                         /\ threshold_value' = IF mode = "start" THEN 0 ELSE 100
                  ELSE IF threshold_in_range(get_int("battery", threshold_key(mode)))
                    THEN /\ threshold_status' = "Ok"
                         /\ threshold_value' =
                               as_u8(get_int("battery", threshold_key(mode)))
                  ELSE threshold_status' = "out of range" /\ threshold_value' = 0
    /\ UNCHANGED <<environment, tick_vars, loop_vars, cache_vars, reload_vars,
                   override_vars, peripheral_vars>>

\* mutant: when get_threshold fails, the stored integer is written as a u8
get_threshold_value_stored ==
    LET stored == config[<<"battery", threshold_key(threshold_mode)>>]
    IN  IF threshold_status = "Ok" THEN threshold_value
        ELSE IF stored \in DOMAIN Int32Of THEN as_u8(Int32Of[stored])
        ELSE IF threshold_mode = "start" THEN 0 ELSE 100

\* get_threshold_value of the battery managers, for the get_threshold call just made:
\* config.get_threshold(mode).unwrap_or_else(|_| if mode == "start" { 0 } else { 100 })
get_threshold_value ==
    IF threshold_status = "Ok" THEN threshold_value
    ELSE IF threshold_mode = "start" THEN 0 ELSE 100

\* a battery backend asks for a threshold
read_threshold == \E mode \in ThresholdModes : get_threshold(mode)

NextThreshold == read_threshold

(***************************************************************************)
(* CachedSystem (core.rs): time in units of 200 ms                         *)
(***************************************************************************)
\* the end of the modelled time
MaxTime == 24

\* the longest the clock moves between two calls
MaxStep == 12

\* CachedSystem::new(2): refresh_interval of 2 s
RefreshInterval == 10

\* new(): last_refresh = Instant::now() - 999 s
InitialAge == 4995

\* the sleep between the two refresh_cpu() reads: 200 ms
SettleTime == 1

\* mutant: a cache exactly one interval old is already stale
stale_at_interval(elapsed) == elapsed >= RefreshInterval

\* self.last_refresh.elapsed() > self.refresh_interval
stale(elapsed) == elapsed > RefreshInterval

\* when the last double-read ended, -1 when there was none
last_double_read ==
    IF \E i \in 1..Len(calls) : calls[i].refreshed
      THEN LET i == CHOOSE j \in 1..Len(calls) :
                       calls[j].refreshed /\ \A k \in 1..(j - 1) : ~calls[k].refreshed
           IN  calls[i].at + SettleTime
      ELSE IF calls = <<>> THEN -1 ELSE calls[Len(calls)].prior

\* the log keeps the last two calls
logged(call) == IF calls = <<>> THEN <<call>> ELSE <<call, calls[1]>>

get_refreshed_system ==
    /\ clock < MaxTime
    /\ IF stale(clock - last_refresh)
         THEN /\ clock' = clock + SettleTime
              /\ last_refresh' = clock + SettleTime
              /\ calls' = logged([at |-> clock, prior |-> last_double_read,
                                  refreshed |-> TRUE])
         ELSE /\ calls' = logged([at |-> clock, prior |-> last_double_read,
                                  refreshed |-> FALSE])
              /\ UNCHANGED <<clock, last_refresh>>
    /\ UNCHANGED <<environment, tick_vars, loop_vars, threshold_vars, reload_vars,
                   override_vars, peripheral_vars>>

\* time passes between two calls
pass_time ==
    /\ \E d \in 1..MaxStep :
         /\ clock + d <= MaxTime
         /\ clock' = clock + d
    /\ UNCHANGED <<last_refresh, calls>>
    /\ UNCHANGED <<environment, tick_vars, loop_vars, threshold_vars, reload_vars,
                   override_vars, peripheral_vars>>

NextCache == get_refreshed_system \/ pass_time

(***************************************************************************)
(* Config: set_path, update_config and the file watcher (config/config.rs) *)
(***************************************************************************)
\* file events the watcher callback can have waiting
MaxEvents == 2

\* Ini::new()
EmptyIni == [k \in ConfigKeys |-> NoOption]

\* a line `key = value` under [section], and a line the parser rejects
option(section, key, value) == [section |-> section, key |-> key, value |-> value, ok |-> TRUE]

broken_line == [section |-> "", key |-> "", value |-> "", ok |-> FALSE]

NoConfigFile == [exists |-> FALSE, lines |-> <<>>]

text_file(lines) == [exists |-> TRUE, lines |-> lines]

ConfigTexts ==
    { <<option("charger", "governor", "performance"),
        option("battery", "governor", "powersave")>>,
      <<option("charger", "governor", "powersave"),
        option("battery", "turbo", "never")>>,
      <<option("charger", "governor", "schedutil"), broken_line>> }

ConfigFiles == {NoConfigFile} \cup {text_file(t) : t \in ConfigTexts}

\* Ini::load, line by line: the Ini after the first n lines were read into ini
RECURSIVE read_lines(_, _, _)
read_lines(ini, lines, n) ==
    IF n = 0 THEN ini
    ELSE [read_lines(ini, lines, n - 1)
            EXCEPT ![<<lines[n].section, lines[n].key>>] = lines[n].value]

\* Ini::load(path).is_ok()
load_ok(file) == file.exists /\ \A i \in 1..Len(file.lines) : file.lines[i].ok

\* the Ini of a load that is Ok
loaded(file) == read_lines(EmptyIni, file.lines, Len(file.lines))

\* mutant: a load that failed still replaces the snapshot, by what it had read
after_failed_load_replaces(snapshot, new_config) == new_config

\* a load that failed: new_config is dropped, the snapshot stays
after_failed_load(snapshot, new_config) == snapshot

\* update_config: Ok(()) in both arms of the match
update_config_returns(ok) == "Ok"

\* the Ini a load had built when it stopped at the first line it rejects
RECURSIVE read_until_error(_, _)
read_until_error(lines, n) ==
    IF n > Len(lines) \/ ~lines[n].ok THEN read_lines(EmptyIni, lines, n - 1)
    ELSE read_until_error(lines, n + 1)

\* update_config
update_config(file) ==
    IF load_ok(file) THEN loaded(file)
    ELSE after_failed_load(config, IF file.exists THEN read_until_error(file.lines, 1)
                                                  ELSE EmptyIni)

WatcherDown == [pc |-> "down", text |-> <<>>, parsed |-> 0, new_config |-> EmptyIni]

WatcherWaiting == [WatcherDown EXCEPT !.pc = "waiting"]

NoReload == [by |-> "none", loaded |-> FALSE, returned |-> "none", before |-> EmptyIni]

\* set_path: the path is stored, an existing file is loaded, the parent directory is watched
set_path ==
    /\ set_path_result = "none"
    /\ config' = IF config_file.exists THEN update_config(config_file) ELSE config
    /\ last_reload' = IF config_file.exists
                        THEN [by |-> "update_config", loaded |-> load_ok(config_file),
                              returned |-> update_config_returns(load_ok(config_file)),
                              before |-> config]
                        ELSE last_reload
    /\ \E watching \in BOOLEAN :
         /\ watcher' = IF watching THEN WatcherWaiting ELSE WatcherDown
         /\ set_path_result' = IF watching THEN "Ok" ELSE "Err"
    /\ UNCHANGED <<config_file, events, observed>>
    /\ UNCHANGED <<hardware, governor_override_file, turbo_override_file, tick_vars,
                   loop_vars, threshold_vars, cache_vars, override_vars, peripheral_vars>>

\* the kinds of file event of the model
EventKinds == {"Create(File)", "Modify(Data)", "Remove(File)", "Access(Close)"}

\* the paths an event of the watched directory can name: the configuration file, a
\* file that differs from it in its extensions only, and any other file
EventPaths == {"config", "sibling", "unrelated"}

\* mutant: the callback does not react to a file that is created
should_update_not_create(kind) == kind \in {"Modify(Data)", "Remove(File)"}

\* the matches! of the callback
should_update(kind) == kind \in {"Create(File)", "Modify(Data)", "Remove(File)"}

\* path == current_path, or the two are the same once their extensions are stripped
path_matches(path) == path \in {"config", "sibling"}

\* mutant: the callback loads into the shared Ini
published_while_loading(snapshot, new_config, complete) == new_config

\* the shared Ini during a reload: replaced by one assignment under the lock, when
\* new_config is complete
published(snapshot, new_config, complete) == IF complete THEN new_config ELSE snapshot

\* the callback takes an event; for one of the configuration file it starts to load
watcher_receive ==
    /\ watcher.pc = "waiting"
    /\ events # <<>>
    /\ events' = Tail(events)
    /\ LET event == Head(events)
       IN  IF should_update(event.kind) /\ path_matches(event.path)
             THEN IF config_file.exists
                    THEN /\ watcher' = [pc |-> "loading", text |-> config_file.lines,
                                        parsed |-> 0, new_config |-> EmptyIni]
                         /\ UNCHANGED <<config, last_reload>>
                    ELSE /\ config' = after_failed_load(config, EmptyIni)
                         /\ last_reload' = [by |-> "watcher", loaded |-> FALSE,
                                            returned |-> "unit", before |-> config]
                         /\ UNCHANGED watcher
             ELSE UNCHANGED <<watcher, config, last_reload>>
    /\ UNCHANGED <<config_file, set_path_result, observed>>
    /\ UNCHANGED <<hardware, governor_override_file, turbo_override_file, tick_vars,
                   loop_vars, threshold_vars, cache_vars, override_vars, peripheral_vars>>

\* new_config.load reads the next line
watcher_load ==
    /\ watcher.pc = "loading"
    /\ watcher.parsed < Len(watcher.text)
    /\ LET n == watcher.parsed + 1
       IN  IF watcher.text[n].ok
             THEN /\ watcher' = [watcher EXCEPT
                                   !.parsed = n,
                                   !.new_config = read_lines(EmptyIni, watcher.text, n)]
                  /\ config' = published(config, watcher'.new_config, FALSE)
                  /\ UNCHANGED last_reload
             ELSE /\ watcher' = WatcherWaiting
                  /\ config' = after_failed_load(config, watcher.new_config)
                  /\ last_reload' = [by |-> "watcher", loaded |-> FALSE,
                                     returned |-> "unit", before |-> config]
    /\ UNCHANGED <<config_file, events, set_path_result, observed>>
    /\ UNCHANGED <<hardware, governor_override_file, turbo_override_file, tick_vars,
                   loop_vars, threshold_vars, cache_vars, override_vars, peripheral_vars>>

\* *config_clone.lock().unwrap() = new_config
watcher_swap ==
    /\ watcher.pc = "loading"
    /\ watcher.parsed = Len(watcher.text)
    /\ config' = published(config, watcher.new_config, TRUE)
    /\ last_reload' = [by |-> "watcher", loaded |-> TRUE, returned |-> "unit",
                       before |-> config]
    /\ watcher' = WatcherWaiting
    /\ UNCHANGED <<config_file, events, set_path_result, observed>>
    /\ UNCHANGED <<hardware, governor_override_file, turbo_override_file, tick_vars,
                   loop_vars, threshold_vars, cache_vars, override_vars, peripheral_vars>>

\* an accessor (get_string and those built on it) locks the snapshot and reads it
read_config ==
    /\ observed' = [called |-> TRUE, snapshot |-> config,
                    reloading |-> watcher.pc = "loading" /\ watcher.parsed > 0]
    /\ UNCHANGED <<config, config_file, events, watcher, set_path_result, last_reload>>
    /\ UNCHANGED <<hardware, governor_override_file, turbo_override_file, tick_vars,
                   loop_vars, threshold_vars, cache_vars, override_vars, peripheral_vars>>

\* notify queues an event once the directory is watched
notified(kind, path) ==
    IF watcher.pc = "down" THEN events ELSE Append(events, [kind |-> kind, path |-> path])

\* somebody writes the configuration file
write_config_file ==
    /\ Len(events) < MaxEvents
    /\ \E text \in ConfigTexts :
         /\ config_file # text_file(text)
         /\ config_file' = text_file(text)
    /\ events' = notified(IF config_file.exists THEN "Modify(Data)" ELSE "Create(File)",
                          "config")
    /\ UNCHANGED <<config, watcher, set_path_result, observed, last_reload>>
    /\ UNCHANGED <<hardware, governor_override_file, turbo_override_file, tick_vars,
                   loop_vars, threshold_vars, cache_vars, override_vars, peripheral_vars>>

\* somebody deletes the configuration file
remove_config_file ==
    /\ Len(events) < MaxEvents
    /\ config_file.exists
    /\ config_file' = NoConfigFile
    /\ events' = notified("Remove(File)", "config")
    /\ UNCHANGED <<config, watcher, set_path_result, observed, last_reload>>
    /\ UNCHANGED <<hardware, governor_override_file, turbo_override_file, tick_vars,
                   loop_vars, threshold_vars, cache_vars, override_vars, peripheral_vars>>

\* something else happens in the watched directory: the configuration file is read,
\* another file is written
other_file_event ==
    /\ Len(events) < MaxEvents
    /\ watcher.pc # "down"
    /\ \E path \in EventPaths :
         events' = Append(events, [kind |-> IF path = "config" THEN "Access(Close)"
                                                               ELSE "Modify(Data)",
                                   path |-> path])
    /\ UNCHANGED <<config, config_file, watcher, set_path_result, observed, last_reload>>
    /\ UNCHANGED <<hardware, governor_override_file, turbo_override_file, tick_vars,
                   loop_vars, threshold_vars, cache_vars, override_vars, peripheral_vars>>

\* no threshold has been asked for yet
NoPass == [pc |-> "idle", start_from |-> EmptyIni, stop_from |-> EmptyIni]

\* setup, after CONFIG.set_path(..)? of main: get_threshold_value(config, "start")
\* locks the snapshot, reads it and lets go of it
setup_get_start ==
    /\ set_path_result = "Ok"
    /\ setup_pass.pc = "idle"
    /\ setup_pass' = [pc |-> "start read", start_from |-> config, stop_from |-> EmptyIni]
    /\ UNCHANGED <<environment, tick_vars, loop_vars, threshold_vars, cache_vars,
                   reload_vars, override_vars, battery_vars, install_vars, power_vars,
                   sensor_vars>>

\* get_threshold_value(config, "stop") locks the snapshot again
setup_get_stop ==
    /\ setup_pass.pc = "start read"
    /\ setup_pass' = [setup_pass EXCEPT !.pc = "done", !.stop_from = config]
    /\ UNCHANGED <<environment, tick_vars, loop_vars, threshold_vars, cache_vars,
                   reload_vars, override_vars, battery_vars, install_vars, power_vars,
                   sensor_vars>>

NextReload ==
    \/ set_path
    \/ watcher_receive
    \/ watcher_load
    \/ watcher_swap
    \/ read_config
    \/ write_config_file
    \/ remove_config_file
    \/ other_file_event

\* the reloads, and the battery setup of main running beside them
NextSetup ==
    \/ setup_get_start
    \/ setup_get_stop
    \/ set_path
    \/ watcher_receive
    \/ watcher_load
    \/ watcher_swap
    \/ read_config
    \/ write_config_file
    \/ remove_config_file
    \/ other_file_event

(***************************************************************************)
(* The override commands: set_override and set_turbo_override (core.rs)    *)
(***************************************************************************)
\* the values --force can carry: the three the command knows and one it does not
OverrideCommands == {"powersave", "performance", "reset", "ondemand"}

TurboOverrideCommands == {"always", "never", "auto", "on"}

\* fs::write and fs::remove_file: done, refused before the file is touched, or (a write
\* only) failed after the file was truncated
IoOutcomes == {"done", "refused", "truncated"}

\* the override file after a command: `set` are the values written, `clear` the one
\* that deletes the file
override_file_after(file, value, set, clear, io) ==
    IF value \in set
      THEN IF io = "done" THEN value ELSE IF io = "truncated" THEN "" ELSE file
    ELSE IF value = clear /\ file # NoFile /\ io = "done" THEN NoFile
    ELSE file

\* mutant: the file is removed without a look whether it exists
override_returns_unchecked_remove(file, value, set, clear, io) ==
    IF value \in set THEN (IF io = "done" THEN "Ok" ELSE "Err")
    ELSE IF value = clear THEN (IF file # NoFile /\ io = "done" THEN "Ok" ELSE "Err")
    ELSE "Ok"

\* the Result of the command: Err from fs::write? and fs::remove_file?
override_returns(file, value, set, clear, io) ==
    IF value \in set THEN (IF io = "done" THEN "Ok" ELSE "Err")
    ELSE IF value = clear /\ file # NoFile THEN (IF io = "done" THEN "Ok" ELSE "Err")
    ELSE "Ok"

NoCall == [value |-> "none", existed |-> FALSE, result |-> "none"]

set_override ==
    /\ \E value \in OverrideCommands, io \in IoOutcomes :
         /\ governor_override_file' =
               override_file_after(governor_override_file, value,
                                   {"powersave", "performance"}, "reset", io)
         /\ override_call' =
               [value   |-> value,
                existed |-> governor_override_file # NoFile,
                result  |-> override_returns(governor_override_file, value,
                                             {"powersave", "performance"}, "reset", io)]
    /\ UNCHANGED <<hardware, config, turbo_override_file, turbo_override_call, tick_vars,
                   loop_vars, threshold_vars, cache_vars, reload_vars, peripheral_vars>>

set_turbo_override ==
    /\ \E value \in TurboOverrideCommands, io \in IoOutcomes :
         /\ turbo_override_file' =
               override_file_after(turbo_override_file, value, {"never", "always"},
                                   "auto", io)
         /\ turbo_override_call' =
               [value   |-> value,
                existed |-> turbo_override_file # NoFile,
                result  |-> override_returns(turbo_override_file, value,
                                             {"never", "always"}, "auto", io)]
    /\ UNCHANGED <<hardware, config, governor_override_file, override_call, tick_vars,
                   loop_vars, threshold_vars, cache_vars, reload_vars, peripheral_vars>>

NextOverride == set_override \/ set_turbo_override

(***************************************************************************)
(* battery/: the vendor battery managers                                   *)
(***************************************************************************)
\* the machine has the batteries BAT0 .. BAT<n-1>, n up to MaxBatteries
MaxBatteries == 2

\* what lsmod can list: the four modules detect asks for and a hwmon driver whose name
\* has one of them as a prefix
ModuleNames ==
    {"ideapad_acpi", "ideapad_laptop", "thinkpad_acpi", "asus_wmi", "asus_wmi_sensors"}

Programs == {"lsmod", "sh", "cat"}

Modes == {"start", "stop"}

\* charge_<mode>_threshold and charge_control_<start|end>_threshold
ThresholdFiles == {"primary", "legacy"}

TrueWords == {"true", "True", "1", "yes", "Yes"}

FalseWords == {"false", "False", "0", "no", "No"}

\* str::contains on the text lsmod prints, for a name the text lists
stdout_contains(listed, module) ==
    \/ listed = module
    \/ listed = "asus_wmi_sensors" /\ module = "asus_wmi"

is_module_loaded(module) ==
    /\ "lsmod" \in programs
    /\ \E listed \in modules : stdout_contains(listed, module)

detect ==
    IF is_module_loaded("ideapad_acpi") THEN "IdeapadAcpi"
    ELSE IF is_module_loaded("ideapad_laptop") THEN "IdeapadLaptop"
    ELSE IF is_module_loaded("thinkpad_acpi") THEN "ThinkpadAcpi"
    ELSE IF is_module_loaded("asus_wmi") THEN "AsusWmi"
    ELSE "None"

\* mutant: an absent option counts as true
get_bool_absent_is_true(value) == value = NoOption \/ value \in TrueWords

\* config.get_bool(..).unwrap_or(false): an absent option and an invalid word are false
get_bool_or_false(value) == value \in TrueWords

\* get_batteries: Err when the directory cannot be listed, no battery when it is missing
get_batteries_fails == power_supply.state = "unreadable"

get_batteries ==
    IF power_supply.state = "listed"
      THEN [i \in 1..power_supply.count |-> i - 1]
      ELSE <<>>

\* the conservation toggle is no battery's file
NoBattery == 0 - 1

\* one `echo value | tee file` of set_battery: "missing" (no file, nothing run),
\* "not started" (sh cannot be run), "written" or "rejected" (tee exits non-zero)
set_battery_how(mode, status) ==
    IF "primary" \notin threshold_layout[mode] THEN "missing"
    ELSE IF "sh" \notin programs THEN "not started"
    ELSE IF status[mode] = "ok" THEN "written" ELSE "rejected"

\* mutant: a threshold file that does not exist is an error of set_battery
set_battery_missing_is_error(variant, how) ==
    IF how = "missing" \/ (variant = "ThinkpadAcpi" /\ how = "not started")
      THEN "Err" ELSE "Ok"

\* what set_battery returns: only ThinkPad's propagates the failed start, with `?`
set_battery_returns(variant, how) ==
    IF variant = "ThinkpadAcpi" /\ how = "not started" THEN "Err" ELSE "Ok"

\* the calls of the loop `for bat in batteries`: start, then stop, battery by battery
write_steps(batteries) ==
    [i \in 1..(2 * Len(batteries)) |->
        <<batteries[(i + 1) \div 2], IF i % 2 = 1 THEN "start" ELSE "stop">>]

RECURSIVE set_batteries(_, _, _)
\* the loop from `steps` on: the writes it attempts, up to the one that returns Err
set_batteries(variant, steps, status) ==
    IF steps = <<>> THEN <<>>
    ELSE LET step  == Head(steps)
             entry == [battery |-> step[1], target |-> step[2],
                       how |-> set_battery_how(step[2], status)]
         IN  IF set_battery_returns(variant, entry.how) = "Err"
               THEN <<entry>>
               ELSE <<entry>> \o set_batteries(variant, Tail(steps), status)

\* the Result of the loop: Err when its last attempt returned Err
loop_returns(variant, log) ==
    IF log # <<>> /\ set_battery_returns(variant, log[Len(log)].how) = "Err"
      THEN "Err" ELSE "Ok"

\* conservation_mode(value): the tee of the toggle; a missing toggle makes tee fail
conservation_how(status) ==
    IF "sh" \notin programs THEN "not started"
    ELSE IF conservation_file = NoFile THEN "rejected"
    ELSE IF status["conservation"] = "ok" THEN "written" ELSE "rejected"

\* Err only when sh cannot be run: the exit status of the tee is not looked at
conservation_mode_returns(how) == IF how = "not started" THEN "Err" ELSE "Ok"

\* the toggle after conservation_mode(value)
toggle_after(value, how) == IF how = "written" THEN value ELSE conservation_file

\* mutant: the toggle is never reported on
check_conservation_mode_off(file) == FALSE

\* check_conservation_mode: true for a "1" that cat delivers, false for everything else
check_conservation_mode(file) == "cat" \in programs /\ file = "1"

NoSetup(returned) ==
    [result |-> returned, log |-> <<>>, reported |-> "unasked", toggle |-> conservation_file]

\* ThinkpadManager, AsusManager and IdeapadAcpiManager: setup
plain_setup(variant, status) ==
    IF ~get_bool_or_false(enable_thresholds) THEN NoSetup("Ok")
    ELSE IF power_supply.state = "missing" THEN NoSetup("Ok")
    ELSE IF get_batteries_fails THEN NoSetup("Err")
    ELSE LET log == set_batteries(variant, write_steps(get_batteries), status)
         IN  [result |-> loop_returns(variant, log), log |-> log,
              reported |-> "unasked", toggle |-> conservation_file]

\* IdeapadLaptopManager::setup
ideapad_laptop_setup(status) ==
    LET how    == conservation_how(status)
        asked  == conservation_option \in {"true", "false"}
        value  == IF conservation_option = "true" THEN "1" ELSE "0"
        toggle == IF asked THEN toggle_after(value, how) ELSE conservation_file
        first  == IF asked
                    THEN <<[battery |-> NoBattery, target |-> "conservation", how |-> how]>>
                    ELSE <<>>
        writes == set_batteries("IdeapadLaptop", write_steps(get_batteries), status)
    IN  IF ~get_bool_or_false(enable_thresholds) THEN NoSetup("Ok")
        ELSE IF get_batteries_fails THEN NoSetup("Err")
        ELSE IF asked /\ conservation_mode_returns(how) = "Err"
          THEN [result |-> "Err", log |-> first, reported |-> "unasked", toggle |-> toggle]
        ELSE IF conservation_option = "true"
          THEN [result |-> "Ok", log |-> first, reported |-> "unasked", toggle |-> toggle]
        ELSE IF check_conservation_mode(toggle)
          THEN [result |-> "Ok", log |-> first, reported |-> "on", toggle |-> toggle]
        ELSE [result |-> loop_returns("IdeapadLaptop", writes), log |-> first \o writes,
              reported |-> "off", toggle |-> toggle]

\* BatteryManager::setup of the variant; no variant, no action
setup(variant, status) ==
    IF variant = "None" THEN NoSetup("Ok")
    ELSE IF variant = "IdeapadLaptop" THEN ideapad_laptop_setup(status)
    ELSE plain_setup(variant, status)

\* asus.rs print_battery_threshold: the primary file, else the legacy file, else no file
print_battery_threshold(mode) ==
    IF "primary" \in threshold_layout[mode] THEN "primary"
    ELSE IF "legacy" \in threshold_layout[mode] THEN "legacy"
    ELSE "not found"

\* read_threshold of the three other variants: `cat` of the primary path, whose output
\* is printed as the value, empty when cat found no file
read_threshold_file(mode) ==
    IF "cat" \notin programs THEN "error"
    ELSE IF "primary" \in threshold_layout[mode] THEN "primary"
    ELSE "empty"

\* what is printed for each battery, start before stop
reports_of(variant, batteries) ==
    [i \in 1..(2 * Len(batteries)) |->
        LET mode == IF i % 2 = 1 THEN "start" ELSE "stop"
        IN  [battery |-> batteries[(i + 1) \div 2], mode |-> mode,
             source |-> IF variant = "AsusWmi" THEN print_battery_threshold(mode)
                        ELSE read_threshold_file(mode)]]

NoReports(returned, report) ==
    [result |-> returned, reports |-> <<>>, reported |-> report]

\* BatteryManager::print_thresholds of the variant
print_thresholds(variant) ==
    IF variant = "None" THEN NoReports("Ok", "unasked")
    ELSE IF variant = "IdeapadLaptop" /\ check_conservation_mode(conservation_file)
      THEN NoReports("Ok", "on")
    ELSE IF get_batteries_fails
      THEN NoReports("Err", IF variant = "IdeapadLaptop" THEN "off" ELSE "unasked")
    ELSE [result |-> "Ok", reports |-> reports_of(variant, get_batteries),
          reported |-> IF variant = "IdeapadLaptop" THEN "off" ELSE "unasked"]

\* the files a setup of the variant can run a tee on
write_targets(variant) ==
    {mode \in Modes : power_supply.count > 0 /\ "primary" \in threshold_layout[mode]}
        \cup (IF variant = "IdeapadLaptop" /\ conservation_file # NoFile
                THEN {"conservation"} ELSE {})

ExitStatuses == {"ok", "nonzero"}

NoBatteryCall ==
    [op |-> "none", variant |-> "None", result |-> "none", log |-> <<>>,
     reported |-> "unasked", reports |-> <<>>]

\* what a battery manager leaves alone
daemon_vars == <<environment, tick_vars, loop_vars, threshold_vars, cache_vars,
                 reload_vars, override_vars, sensor_vars, setup_pass>>

battery_setup ==
    /\ \E status \in [write_targets(detect) -> ExitStatuses] :
         LET done == setup(detect, status)
         IN  /\ battery_call' =
                  [op |-> "setup", variant |-> detect, result |-> done.result,
                   log |-> done.log, reported |-> done.reported, reports |-> <<>>]
             /\ conservation_file' = done.toggle
    /\ UNCHANGED <<daemon_vars, battery_environment, install_vars, power_vars>>

battery_get_thresholds ==
    /\ LET done == print_thresholds(detect)
       IN  battery_call' =
              [op |-> "print", variant |-> detect, result |-> done.result,
               log |-> <<>>, reported |-> done.reported, reports |-> done.reports]
    /\ UNCHANGED <<daemon_vars, battery_environment, conservation_file, install_vars,
                   power_vars>>

NextBattery == battery_setup \/ battery_get_thresholds

(***************************************************************************)
(* core.rs: install_daemon and remove_daemon, and the start of main        *)
(***************************************************************************)
PsFailed == "<ps failed>"

\* what `ps -p 1 -o comm=` prints
Pid1Names == {"systemd", "init", "dinit", "runit", "s6-svscan", "launchd", PsFailed}

\* the ID of /etc/os-release, NoFile without the file
DistroIds == {NoFile, "void", "artix", "debian"}

\* where the program writes: /tmp (hook script), /usr/local/bin (helper), the unit
\* directory under /etc, and the service directory of runit
Dirs == {"tmp", "usr", "etc", "service"}

detect_init_system ==
    CASE pid1 = "systemd"   -> "systemd"
      [] pid1 = "init"      -> "openrc"
      [] pid1 = "dinit"     -> "dinit"
      [] pid1 = "runit"     -> "runit"
      [] pid1 = "s6-svscan" -> "s6"
      [] OTHER              -> "unknown"

NotInstalled == [unit |-> FALSE, link |-> FALSE, requested |-> FALSE]

\* run_install_script and run_remove_script: Err before the hook runs (the script
\* cannot be written, chmod or sh cannot be started), Ok once it ran, whatever its exit
run_script_returns == IF "tmp" \in writable /\ tools_run THEN "Ok" ELSE "Err"

\* deploy_cpufreqctl writes the helper only when there is none
deploy_cpufreqctl_writes(helper) == ~helper /\ "usr" \in writable

deploy_cpufreqctl_returns(helper) ==
    IF helper THEN "Ok"
    ELSE IF "usr" \in writable /\ tools_run THEN "Ok" ELSE "Err"

\* install_runit and remove_runit know the directories of two distributions
runit_paths_known == os_release \in {"void", "artix"}

\* mutant: the old link is left where it is
remove_link_skipped(link) == link

\* `let _ = fs::remove_file(&service_link)`: the link is gone unless the removal failed
remove_link(link) == IF "service" \in writable THEN FALSE ELSE link

\* std::os::unix::fs::symlink fails over an existing link
symlink_returns(link) == IF link \/ "service" \notin writable THEN "Err" ELSE "Ok"

\* install_systemd, install_openrc, install_dinit, install_runit, install_s6: the unit
\* file is written first, then the tools of the init system are started; their exit
\* status is not read
install_unit(init, svc) ==
    LET written == [svc EXCEPT !.unit = TRUE]
        unlinked == [written EXCEPT !.link = remove_link(svc.link)]
    IN  IF init = "runit" /\ ~runit_paths_known THEN [returns |-> "Err", service |-> svc]
        ELSE IF "etc" \notin writable THEN [returns |-> "Err", service |-> svc]
        ELSE IF ~tools_run THEN [returns |-> "Err", service |-> written]
        ELSE IF init # "runit"
          THEN [returns |-> "Ok", service |-> [written EXCEPT !.requested = TRUE]]
        ELSE IF symlink_returns(unlinked.link) = "Err"
          THEN [returns |-> "Err", service |-> unlinked]
        ELSE [returns |-> "Ok",
              service |-> [unit |-> TRUE, link |-> TRUE, requested |-> TRUE]]

\* remove_systemd .. remove_s6: stop, disable and the removals are `let _ =`; only the
\* last tool of remove_systemd and of remove_s6 is started with `?`
remove_unit(init, svc) ==
    IF init = "runit" /\ ~runit_paths_known THEN [returns |-> "Err", service |-> svc]
    ELSE [returns |-> IF init \in {"systemd", "s6"} /\ ~tools_run THEN "Err" ELSE "Ok",
          service |->
             [unit      |-> IF "etc" \in writable THEN FALSE ELSE svc.unit,
              link      |-> IF init = "runit" THEN remove_link(svc.link) ELSE svc.link,
              requested |-> IF tools_run THEN FALSE ELSE svc.requested]]

NoInstallCall ==
    [op |-> "none", init |-> "unknown", result |-> "none", hook |-> FALSE,
     deployed |-> FALSE, again |-> FALSE,
     before |-> [helper |-> FALSE, service |-> NotInstalled]]

\* what no action of a command-line run changes
install_rest == <<environment, tick_vars, first_run_done, stats_file, stats_result,
                  threshold_vars, cache_vars, reload_vars, override_vars, battery_vars,
                  power_vars, install_environment, sensor_vars, setup_pass>>

MainEnded == [pc |-> "ended", by |-> "main"]

install_daemon ==
    /\ process.pc = "found"
    /\ LET init     == detect_init_system
           hook     == run_script_returns = "Ok"
           deployed == hook /\ deploy_cpufreqctl_writes(helper_deployed)
           matched  == hook /\ deploy_cpufreqctl_returns(helper_deployed) = "Ok"
           unit     == install_unit(init, service)
       IN  /\ helper_deployed' = (helper_deployed \/ deployed)
           /\ service' = IF matched /\ init # "unknown" THEN unit.service ELSE service
           /\ install_call' =
                 [op |-> "install", init |-> init,
                  result |-> IF matched /\ init # "unknown" THEN unit.returns ELSE "Err",
                  hook |-> hook, deployed |-> deployed,
                  again |-> install_call.op = "install" /\ install_call.result = "Ok",
                  before |-> [helper |-> helper_deployed, service |-> service]]
    /\ process' = MainEnded
    /\ UNCHANGED <<install_rest, lookup>>

remove_daemon ==
    /\ process.pc = "found"
    /\ LET init    == detect_init_system
           known   == init # "unknown"
           unit    == remove_unit(init, service)
           removed == known /\ helper_deployed /\ "usr" \in writable
           helper_ok == known /\ (helper_deployed => "usr" \in writable)
           hook    == helper_ok /\ run_script_returns = "Ok"
       IN  /\ helper_deployed' = (helper_deployed /\ ~removed)
           /\ service' = IF known THEN unit.service ELSE service
           /\ install_call' =
                 [op |-> "remove", init |-> init,
                  result |-> IF hook THEN unit.returns ELSE "Err",
                  hook |-> hook, deployed |-> FALSE, again |-> FALSE,
                  before |-> [helper |-> helper_deployed, service |-> service]]
    /\ process' = MainEnded
    /\ UNCHANGED <<install_rest, lookup>>

\* the --config argument: none, a path that is a file, a path that is not
ConfigArguments == {NoOption, "a file", "no file"}

NoLookup == [args |-> NoOption, path |-> "none"]

\* config.rs find_config_file: the argument's file, else the user's file when it
\* exists, else the system file; with an argument that is no file it ends the process
find_config_file ==
    /\ process.pc = "parsed"
    /\ \E args \in ConfigArguments :
         IF args = "no file"
           THEN /\ lookup' = [args |-> args, path |-> "none"]
                /\ process' = [pc |-> "ended", by |-> "find_config_file"]
           ELSE /\ lookup' = [args |-> args,
                              path |-> IF args = "a file" THEN "argument"
                                       ELSE IF user_config THEN "user" ELSE "system"]
                /\ process' = [pc |-> "found", by |-> "none"]
    /\ UNCHANGED <<install_rest, helper_deployed, service, install_call>>

\* the next run of the program: main after Args::parse
start_main ==
    /\ process.pc = "ended"
    /\ process' = [pc |-> "parsed", by |-> "none"]
    /\ UNCHANGED <<install_rest, helper_deployed, service, install_call, lookup>>

NextInstall == start_main \/ find_config_file \/ install_daemon \/ remove_daemon

(***************************************************************************)
(* modules/system_info.rs: BatteryPathCache, battery_info; core.rs charging *)
(* Time is counted in units of 20 s.                                       *)
(***************************************************************************)
\* the last instant of a run
MaxUptime == 5

\* Duration::from_secs(60) of maybe_rescan
RescanInterval == 3

\* /sys/class/power_supply: a Battery device or none, with its status, and a Mains
\* device or none, with its online value; every attribute file that exists is readable
Supplies ==
    {[battery |-> FALSE, status |-> "none", mains |-> m] : m \in {"none", "0", "1"}}
        \cup {[battery |-> TRUE, status |-> s, mains |-> m] :
                 s \in {"Discharging", "Charging"}, m \in {"none", "0", "1"}}

\* BATTERY_PATH_CACHE before its first use: the lazy_static is not built
NotBuilt == [built |-> FALSE, battery_path |-> FALSE, mains_path |-> FALSE, cached_at |-> 0]

\* scan_power_supply without a [battery] battery_device option: the first device of
\* type Battery and the first of type Mains
scan_power_supply ==
    [built |-> TRUE, battery_path |-> supplies.battery,
     mains_path |-> supplies.mains # "none", cached_at |-> uptime]

\* mutant: the paths are rescanned at the interval already
rescan_due_at_interval(elapsed) == elapsed >= RescanInterval

\* maybe_rescan: cached_at.elapsed() > 60 s
rescan_due(elapsed) == elapsed > RescanInterval

\* a call scans when it builds the cache (BatteryPathCache::new) or when the paths
\* are older than the interval
scans == ~path_cache.built \/ rescan_due(uptime - path_cache.cached_at)

\* the cache after BATTERY_PATH_CACHE.lock() and maybe_rescan
cache_after_lock == IF scans THEN scan_power_supply ELSE path_cache

\* mutant: the mains value is reported with or without a battery
is_ac_plugged_of_mains(cache) ==
    IF cache.mains_path /\ supplies.mains # "none" THEN supplies.mains = "1" ELSE TRUE

\* battery_info: true by default, the online value of the cached mains path when it
\* can be read, and true again when there is no battery path
is_ac_plugged_of(cache) ==
    IF ~cache.battery_path THEN TRUE
    ELSE IF cache.mains_path /\ supplies.mains # "none" THEN supplies.mains = "1"
    ELSE TRUE

\* core.rs charging(): its own scan in the order of the names (the mains device AC or
\* ADP1 before BAT0): true at a mains that is online, false at a battery that is
\* discharging, true at the end
charging_returns ==
    IF supplies.mains = "1" THEN TRUE
    ELSE IF supplies.battery /\ supplies.status = "Discharging" THEN FALSE
    ELSE TRUE

NoPowerCall ==
    [op |-> "none", first |-> FALSE, elapsed |-> 0, scanned |-> FALSE,
     battery_path |-> FALSE, present |-> FALSE, answer |-> TRUE]

\* what the calls on the power supplies leave alone
power_rest == <<daemon_vars, battery_vars, install_vars>>

\* the record of a call that went through the cache
cache_call(name, value) ==
    [op |-> name, first |-> ~path_cache.built,
     elapsed |-> IF path_cache.built THEN uptime - path_cache.cached_at ELSE 0,
     scanned |-> scans, battery_path |-> cache_after_lock.battery_path,
     present |-> supplies.battery, answer |-> value]

get_battery_path ==
    /\ path_cache' = cache_after_lock
    /\ power_call' = cache_call("get_battery_path", cache_after_lock.battery_path)
    /\ UNCHANGED <<power_rest, supplies, uptime>>

battery_info ==
    /\ path_cache' = cache_after_lock
    /\ power_call' = cache_call("battery_info", is_ac_plugged_of(cache_after_lock))
    /\ UNCHANGED <<power_rest, supplies, uptime>>

charging ==
    /\ power_call' =
          [op |-> "charging", first |-> FALSE, elapsed |-> 0, scanned |-> TRUE,
           battery_path |-> supplies.battery, present |-> supplies.battery,
           answer |-> charging_returns]
    /\ UNCHANGED <<power_rest, supplies, uptime, path_cache>>

\* 20 s pass
wait ==
    /\ uptime < MaxUptime
    /\ uptime' = uptime + 1
    /\ UNCHANGED <<power_rest, supplies, path_cache, power_call>>

\* a power supply is plugged in, pulled, or changes its state
hotplug ==
    /\ supplies' \in Supplies \ {supplies}
    /\ UNCHANGED <<power_rest, uptime, path_cache, power_call>>

NextPower == get_battery_path \/ battery_info \/ charging \/ wait \/ hotplug

(***************************************************************************)
(* TempSensorCache and TEMP_CACHE (core.rs)                                *)
(***************************************************************************)
\* the end of time of the sensor model, in units of 20 s
MaxSensorUptime == 16

\* Duration::from_secs(300)
TempRescanInterval == 15

\* a temperature file: not there, holding a number, failing to be read, holding no number
FileStates == {"absent", "ok", "unreadable", "garbage"}

\* temp2_input (core 0) and temp1_input (package) of the first hwmon entry whose name
\* is in sensor_priority; both absent when there is no such entry
HwmonStates == [core : FileStates, package : FileStates]

NoTempCache ==
    [built |-> FALSE, core_path |-> FALSE, package_path |-> FALSE, last_scan |-> 0]

\* scan_sensors: a file that exists is cached, a cached path is never dropped
scan_sensors(cache) ==
    [built        |-> TRUE,
     core_path    |-> cache.core_path \/ hwmon.core # "absent",
     package_path |-> cache.package_path \/ hwmon.package # "absent",
     last_scan    |-> uptime]

\* the test of maybe_rescan, which has no caller
temp_rescan_due(elapsed) == elapsed > TempRescanInterval

\* TEMP_CACHE.lock(): the lazy_static is constructed, with its scan, at the first use
temp_cache_after_lock == IF temp_cache.built THEN temp_cache ELSE scan_sensors(NoTempCache)

\* fs::read_to_string and parse::<f32> succeed
reads_number(path_cached, file) == path_cached /\ file = "ok"

\* read_core_temp(0): the sensor whose reading is returned, or "0.0"
read_core_temp(cache) ==
    IF reads_number(cache.core_path, hwmon.core) THEN "core"
    ELSE IF reads_number(cache.package_path, hwmon.package) THEN "package"
    ELSE "0.0"

read_package_temp(cache) ==
    IF reads_number(cache.package_path, hwmon.package) THEN "package" ELSE "0.0"

NoTempCall == [op |-> "none", value |-> "0.0", scan |-> "none", age |-> 0]

\* the record of a read: what it returned, whether it scanned, and how old the scan
\* was whose paths it read
temp_call_of(name, value) ==
    [op    |-> name,
     value |-> value,
     scan  |-> IF temp_cache.built THEN "none" ELSE "first",
     age   |-> uptime - temp_cache_after_lock.last_scan]

\* what the sensor reads leave alone
sensor_rest == <<environment, tick_vars, loop_vars, threshold_vars, cache_vars,
                 reload_vars, override_vars, battery_vars, install_vars, supplies,
                 path_cache, power_call, setup_pass>>

\* read_cpu_temperature(0): TEMP_CACHE.lock().unwrap().read_core_temp(0)
read_cpu_temperature ==
    /\ temp_cache' = temp_cache_after_lock
    /\ temp_call' = temp_call_of("read_cpu_temperature",
                                 read_core_temp(temp_cache_after_lock))
    /\ UNCHANGED <<sensor_rest, uptime, hwmon>>

\* read_package_temperature: TEMP_CACHE.lock().unwrap().read_package_temp()
read_package_temperature ==
    /\ temp_cache' = temp_cache_after_lock
    /\ temp_call' = temp_call_of("read_package_temperature",
                                 read_package_temp(temp_cache_after_lock))
    /\ UNCHANGED <<sensor_rest, uptime, hwmon>>

\* 20 s pass
sensor_wait ==
    /\ uptime < MaxSensorUptime
    /\ uptime' = uptime + 1
    /\ UNCHANGED <<sensor_rest, sensor_vars>>

\* a sensor module is loaded or unloaded, a file starts or stops to deliver a number
sensor_change ==
    /\ \E file \in {"core", "package"}, state \in FileStates :
         /\ state # hwmon[file]
         /\ hwmon' = [hwmon EXCEPT ![file] = state]
    /\ UNCHANGED <<sensor_rest, uptime, temp_cache, temp_call>>

NextSensors ==
    read_cpu_temperature \/ read_package_temperature \/ sensor_wait \/ sensor_change

(***************************************************************************)
(* Initial states                                                          *)
(***************************************************************************)
KernelReports ==
    { <<>>,
      <<"powersave", "performance">>,
      <<"performance", "schedutil", "powersave">>,
      <<"conservative", "ondemand", "userspace", "powersave", "performance", "schedutil">>,
      <<"ondemand", "conservative">>,
      <<"userspace", "conservative">>,
      <<"interactive", "powersave">> }

GovernorOverrideFiles == {NoFile, Unreadable, "performance", "powersave\n", "reset"}

TurboOverrideFiles == {NoFile, Unreadable, "always", "never\n"}

ConfigGovernors == {NoOption, "", "powersave", "interactive"}

ConfigTurbos == {NoOption, "always", "never", "auto"}

\* the components a specification does not exercise stay as they are constructed
LoopQuiet ==
    /\ helper_deployed = TRUE
    /\ first_run_done = TRUE
    /\ stats_file = NoFile
    /\ stats_result = "none"

ThresholdQuiet ==
    /\ threshold_mode = "none"
    /\ threshold_status = "none"
    /\ threshold_value = 0

CacheQuiet ==
    /\ clock = 0
    /\ last_refresh = 0 - InitialAge
    /\ calls = <<>>

ReloadQuiet ==
    /\ config_file = NoConfigFile
    /\ events = <<>>
    /\ watcher = WatcherDown
    /\ set_path_result = "none"
    /\ observed = [called |-> FALSE, snapshot |-> EmptyIni, reloading |-> FALSE]
    /\ last_reload = NoReload

OverrideQuiet ==
    /\ override_call = NoCall
    /\ turbo_override_call = NoCall

\* a machine without a vendor module, and no battery manager call
BatteryQuiet ==
    /\ modules = {}
    /\ programs = Programs
    /\ enable_thresholds = NoOption
    /\ conservation_option = NoOption
    /\ power_supply = [state |-> "missing", count |-> 0]
    /\ threshold_layout = [mode \in Modes |-> {}]
    /\ conservation_file = NoFile
    /\ battery_call = NoBatteryCall

\* a systemd machine on which nothing is installed and no command has run
InstallQuiet ==
    /\ pid1 = "systemd"
    /\ os_release = NoFile
    /\ writable = Dirs
    /\ tools_run = TRUE
    /\ user_config = FALSE
    /\ service = NotInstalled
    /\ install_call = NoInstallCall
    /\ process = [pc |-> "parsed", by |-> "none"]
    /\ lookup = NoLookup

\* a machine on mains without a battery, its path cache not built
PowerQuiet ==
    /\ supplies = [battery |-> FALSE, status |-> "none", mains |-> "1"]
    /\ path_cache = NotBuilt
    /\ uptime = 0
    /\ power_call = NoPowerCall

SensorQuiet ==
    /\ hwmon = [core |-> "ok", package |-> "ok"]
    /\ temp_cache = NoTempCache
    /\ temp_call = NoTempCall

PassQuiet == setup_pass = NoPass

PeripheralQuiet ==
    BatteryQuiet /\ InstallQuiet /\ PowerQuiet /\ SensorQuiet /\ PassQuiet

\* no call of set_autofreq has run
NoTickYet ==
    /\ held = {}
    /\ is_charging = FALSE
    /\ cpu_usage = 0
    /\ load = 0
    /\ target_governor = "none"
    /\ current_governor = "none"
    /\ governor_write = "none"
    /\ turbo_write = "none"
    /\ reached = "none"
    /\ result = "none"
    /\ governor_status = "none"
    /\ turbo_outcome = "none"
    /\ held_most = {}

\* a stock machine, for the specifications of the other components
StockMachine ==
    /\ available_governors = <<"performance", "schedutil", "powersave">>
    /\ cpu_count = 1
    /\ turbo_files = {"boost"}
    /\ turbo_file_value = 0
    /\ core_temps = <<70>>
    /\ scaling_governor = "powersave"

InitLocals ==
    /\ pc = "idle"
    /\ NoTickYet

\* every governor environment; the turbo environment is the default one or a forced turbo
InitGovernor ==
    /\ available_governors \in KernelReports
    /\ cpu_count \in CoreCounts
    /\ governor_override_file \in GovernorOverrideFiles
    /\ config \in {c \in [ConfigKeys -> ConfigGovernors] :
                      c[<<"charger", "turbo">>] = NoOption /\ c[<<"battery", "turbo">>] = NoOption}
    /\ turbo_override_file \in {NoFile, "always"}
    /\ turbo_files = {"boost"}
    /\ turbo_file_value = 0
    /\ core_temps = [i \in 1..cpu_count |-> 70]
    /\ scaling_governor = IF available_governors = <<>> THEN "" ELSE available_governors[1]
    /\ InitLocals
    /\ LoopQuiet /\ ThresholdQuiet /\ CacheQuiet /\ ReloadQuiet /\ OverrideQuiet /\ PeripheralQuiet

\* every turbo environment; the governor environment is the one of a stock kernel
InitTurbo ==
    /\ available_governors = <<"performance", "schedutil", "powersave">>
    /\ cpu_count = TurboCores
    /\ governor_override_file = NoFile
    /\ turbo_override_file \in TurboOverrideFiles
    /\ config \in {c \in [ConfigKeys -> ConfigTurbos] :
                      c[<<"charger", "governor">>] = NoOption
                      /\ c[<<"battery", "governor">>] = NoOption}
    /\ turbo_files \in {{}, {"boost"}, {"no_turbo", "boost"}, {"amd_pstate"}}
    /\ turbo_file_value = 0
    /\ core_temps \in TempProfiles(cpu_count)
    /\ scaling_governor = available_governors[1]
    /\ InitLocals
    /\ LoopQuiet /\ ThresholdQuiet /\ CacheQuiet /\ ReloadQuiet /\ OverrideQuiet /\ PeripheralQuiet

Init == InitGovernor

Spec == Init /\ [][Next]_vars

SpecTurbo == InitTurbo /\ [][Next]_vars

\* the daemon loop on a stock machine, the helper installed or not
InitLoop ==
    /\ StockMachine
    /\ governor_override_file \in {NoFile, "powersave"}
    /\ turbo_override_file \in {NoFile, "never\n"}
    /\ config = EmptyIni
    /\ pc = "update_stats_file"
    /\ NoTickYet
    /\ helper_deployed \in BOOLEAN
    /\ first_run_done = FALSE
    /\ stats_file = NoFile
    /\ stats_result = "none"
    /\ ThresholdQuiet /\ CacheQuiet /\ ReloadQuiet /\ OverrideQuiet /\ PeripheralQuiet

SpecLoop == InitLoop /\ [][NextLoop]_vars

\* every pair of stored thresholds
InitThreshold ==
    /\ StockMachine
    /\ governor_override_file = NoFile
    /\ turbo_override_file = NoFile
    /\ config \in [ThresholdKeys -> StoredThresholds]
    /\ pc = "idle"
    /\ NoTickYet
    /\ LoopQuiet /\ ThresholdQuiet /\ CacheQuiet /\ ReloadQuiet /\ OverrideQuiet /\ PeripheralQuiet

SpecThreshold == InitThreshold /\ [][NextThreshold]_vars

\* the cache as CACHED_SYSTEM constructs it
InitCache ==
    /\ StockMachine
    /\ governor_override_file = NoFile
    /\ turbo_override_file = NoFile
    /\ config = EmptyIni
    /\ pc = "idle"
    /\ NoTickYet
    /\ LoopQuiet /\ ThresholdQuiet /\ CacheQuiet /\ ReloadQuiet /\ OverrideQuiet /\ PeripheralQuiet

SpecCache == InitCache /\ [][NextCache]_vars

\* Config::new(), and the configuration file in any of its states
InitReload ==
    /\ StockMachine
    /\ governor_override_file = NoFile
    /\ turbo_override_file = NoFile
    /\ config = EmptyIni
    /\ pc = "idle"
    /\ NoTickYet
    /\ config_file \in ConfigFiles
    /\ events = <<>>
    /\ watcher = WatcherDown
    /\ set_path_result = "none"
    /\ observed = [called |-> FALSE, snapshot |-> EmptyIni, reloading |-> FALSE]
    /\ last_reload = NoReload
    /\ LoopQuiet /\ ThresholdQuiet /\ CacheQuiet /\ OverrideQuiet /\ PeripheralQuiet

\* notify's thread runs the callback for every event it has queued
SpecReload ==
    /\ InitReload
    /\ [][NextReload]_vars
    /\ WF_vars(watcher_receive)
    /\ WF_vars(watcher_load)
    /\ WF_vars(watcher_swap)

\* main after CONFIG.set_path: the watcher runs while battery setup reads its thresholds
SpecSetup == InitReload /\ [][NextSetup]_vars

\* the override files in any of their states
InitOverride ==
    /\ StockMachine
    /\ governor_override_file \in GovernorOverrideFiles
    /\ turbo_override_file \in TurboOverrideFiles
    /\ config = EmptyIni
    /\ pc = "idle"
    /\ NoTickYet
    /\ LoopQuiet /\ ThresholdQuiet /\ CacheQuiet /\ ReloadQuiet /\ OverrideQuiet /\ PeripheralQuiet

SpecOverride == InitOverride /\ [][NextOverride]_vars

\* the battery managers: every module list, every program that may be missing, the
\* threshold switch, the power-supply directory and the files of its batteries; the
\* conservation option and toggle vary on the machines that have the toggle
PowerSupplies ==
    {[state |-> "missing", count |-> 0], [state |-> "unreadable", count |-> 0]}
        \cup {[state |-> "listed", count |-> n] : n \in 0..MaxBatteries}

InitBattery ==
    /\ modules \in SUBSET ModuleNames
    /\ programs \in {Programs} \cup {Programs \ {gone} : gone \in Programs}
    /\ enable_thresholds \in {NoOption, "true", "false", "maybe"}
    /\ power_supply \in PowerSupplies
    /\ threshold_layout \in
          IF power_supply.count = 0 THEN {[mode \in Modes |-> {}]}
          ELSE [Modes -> SUBSET ThresholdFiles]
    /\ conservation_option \in
          IF detect = "IdeapadLaptop" THEN {NoOption, "true", "false", "True"}
          ELSE {NoOption}
    /\ conservation_file \in
          IF detect = "IdeapadLaptop" THEN {NoFile, "0", "1"} ELSE {NoFile}
    /\ battery_call = NoBatteryCall
    /\ governor_override_file = NoFile
    /\ turbo_override_file = NoFile
    /\ config = EmptyIni
    /\ StockMachine
    /\ InitLocals
    /\ LoopQuiet /\ ThresholdQuiet /\ CacheQuiet /\ ReloadQuiet /\ OverrideQuiet
    /\ InstallQuiet /\ PowerQuiet /\ SensorQuiet /\ PassQuiet

SpecBattery == InitBattery /\ [][NextBattery]_vars

\* the installer: every process 1, distribution, set of writable directories, with
\* and without the tools, the helper script and the user's configuration file
InitInstall ==
    /\ pid1 \in Pid1Names
    /\ os_release \in DistroIds
    /\ writable \in SUBSET Dirs
    /\ tools_run \in BOOLEAN
    /\ user_config \in BOOLEAN
    /\ helper_deployed \in BOOLEAN
    /\ service = NotInstalled
    /\ install_call = NoInstallCall
    /\ process = [pc |-> "parsed", by |-> "none"]
    /\ lookup = NoLookup
    /\ first_run_done = TRUE
    /\ stats_file = NoFile
    /\ stats_result = "none"
    /\ governor_override_file = NoFile
    /\ turbo_override_file = NoFile
    /\ config = EmptyIni
    /\ StockMachine
    /\ InitLocals
    /\ ThresholdQuiet /\ CacheQuiet /\ ReloadQuiet /\ OverrideQuiet
    /\ BatteryQuiet /\ PowerQuiet /\ SensorQuiet /\ PassQuiet

SpecInstall == InitInstall /\ [][NextInstall]_vars

\* the power supplies: every set of devices, at the start of the process
InitPower ==
    /\ supplies \in Supplies
    /\ path_cache = NotBuilt
    /\ uptime = 0
    /\ power_call = NoPowerCall
    /\ governor_override_file = NoFile
    /\ turbo_override_file = NoFile
    /\ config = EmptyIni
    /\ StockMachine
    /\ InitLocals
    /\ LoopQuiet /\ ThresholdQuiet /\ CacheQuiet /\ ReloadQuiet /\ OverrideQuiet
    /\ BatteryQuiet /\ InstallQuiet /\ SensorQuiet /\ PassQuiet

SpecPower == InitPower /\ [][NextPower]_vars

\* the sensor cache: every state of the two temperature files, nothing cached yet
InitSensors ==
    /\ hwmon \in HwmonStates
    /\ temp_cache = NoTempCache
    /\ temp_call = NoTempCall
    /\ governor_override_file = NoFile
    /\ turbo_override_file = NoFile
    /\ config = EmptyIni
    /\ StockMachine
    /\ InitLocals
    /\ LoopQuiet /\ ThresholdQuiet /\ CacheQuiet /\ ReloadQuiet /\ OverrideQuiet
    /\ BatteryQuiet /\ InstallQuiet /\ PowerQuiet /\ PassQuiet

SpecSensors == InitSensors /\ [][NextSensors]_vars

(***************************************************************************)
(* Properties                                                              *)
(***************************************************************************)
\* the call got as far as deciding the governor
Decided == pc # "idle" /\ reached \notin {"none", "charging"}

\* the call entered set_turbo_based_on_usage
TurboCalled == pc # "idle" /\ reached \in {"turbo_override", "turbo_config", "turbo_automatic"}

\* the governors the program takes as supported: the kernel's that it knows
Supported == Range(available_governors) \cap Range(ALL_GOVERNORS)

ActiveSection == IF is_charging THEN "charger" ELSE "battery"

InactiveSection == IF is_charging THEN "battery" ELSE "charger"

HighDemand == cpu_usage > 50 \/ load > 50 * cpu_count

LowDemand == cpu_usage < 25 /\ load < 75 * cpu_count

\* C1: a persisted governor override 'performance' (resp. 'powersave') is the decision,
\* whatever usage, load, charging state, configuration and supported governors are
C1_OverrideWins ==
    Decided =>
        /\ governor_override_file \in {"performance", "performance\n"}
              => target_governor = "performance"
        /\ governor_override_file \in {"powersave", "powersave\n"}
              => target_governor = "powersave"

\* C1 witness: the override beats a supported governor configured for the active section
C1_Witness ==
    /\ Decided
    /\ governor_override_file = "performance"
    /\ ~is_charging
    /\ cpu_usage = 10
    /\ config[<<"battery", "governor">>] = "powersave"
    /\ "powersave" \in Supported
    /\ target_governor = "performance"

\* C2: no override, no governor configured for the charger section, charging:
\* 'performance' when demand is high and it is supported, else 'schedutil' when
\* supported, else 'ondemand' when supported
C2_ChargingRule ==
    (Decided /\ get_override = "Default" /\ is_charging
        /\ config[<<"charger", "governor">>] = NoOption) =>
        LET perf == HighDemand /\ "performance" \in Range(available_governors)
        IN  /\ perf => target_governor = "performance"
            /\ (~perf /\ "schedutil" \in Range(available_governors))
                  => target_governor = "schedutil"
            /\ (~perf /\ "schedutil" \notin Range(available_governors)
                      /\ "ondemand" \in Range(available_governors))
                  => target_governor = "ondemand"

\* C2 witness: usage 60, load 3.00, 4 cores, {performance, schedutil, powersave}
C2_Witness ==
    /\ Decided
    /\ governor_override_file = NoFile
    /\ \A k \in ConfigKeys : config[k] = NoOption
    /\ is_charging
    /\ cpu_usage = 60
    /\ load = 300
    /\ cpu_count = 4
    /\ available_governors = <<"performance", "schedutil", "powersave">>
    /\ target_governor = "performance"

\* C3: no override, no governor configured for the battery section, on battery:
\* 'powersave' when demand is low and it is supported, else 'schedutil' when supported
C3_BatteryRule ==
    (Decided /\ get_override = "Default" /\ ~is_charging
        /\ config[<<"battery", "governor">>] = NoOption) =>
        LET save == LowDemand /\ "powersave" \in Range(available_governors)
        IN  /\ save => target_governor = "powersave"
            /\ (~save /\ "schedutil" \in Range(available_governors))
                  => target_governor = "schedutil"

\* C3 witness: usage 10, load 0.20, 4 cores, {performance, schedutil, powersave}
C3_Witness ==
    /\ Decided
    /\ governor_override_file = NoFile
    /\ \A k \in ConfigKeys : config[k] = NoOption
    /\ ~is_charging
    /\ cpu_usage = 10
    /\ load = 20
    /\ cpu_count = 4
    /\ available_governors = <<"performance", "schedutil", "powersave">>
    /\ target_governor = "powersave"

FallbackReached ==
    /\ Decided
    /\ get_override = "Default"
    /\ config[<<ActiveSection, "governor">>] \notin Supported
    /\ "schedutil" \notin Supported
    /\ IF is_charging
         THEN "ondemand" \notin Supported /\ ~(HighDemand /\ "performance" \in Supported)
         ELSE ~(LowDemand /\ "powersave" \in Supported)

Position(g) == CHOOSE i \in 1..Len(ALL_GOVERNORS) : ALL_GOVERNORS[i] = g

\* C5 as stated: the fallback is the first governor in the order the kernel reports
C5_KernelOrderFallback ==
    (FallbackReached /\ Len(available_governors) > 0)
        => target_governor = available_governors[1]

\* C5 amended: the fallback is the supported governor that comes first in the fixed order
\* of ALL_GOVERNORS, and 'schedutil' when no known governor is supported
C5_SortedFallback ==
    FallbackReached =>
        IF Supported = {}
          THEN target_governor = "schedutil"
          ELSE /\ target_governor \in Supported
               /\ \A g \in Supported : Position(target_governor) <= Position(g)

\* C5 witness: the kernel reports userspace before conservative
C5_Witness ==
    /\ FallbackReached
    /\ available_governors = <<"userspace", "conservative">>
    /\ target_governor = "conservative"

\* C6: the governor is written exactly when the target differs from the governor that
\* get_current_gov reports, and what is written is the target
C6_WriteOnlyOnChange ==
    Decided =>
        /\ governor_write # "none" <=> target_governor # current_governor
        /\ governor_write # "none" => governor_write = target_governor
        /\ current_governor \in {scaling_governor, "unknown"} \/ governor_write # "none"

\* C6 witness: the helper reports the target governor, and nothing is written
C6_Witness ==
    /\ Decided
    /\ target_governor = "performance"
    /\ current_governor = "performance"
    /\ governor_write = "none"
    /\ scaling_governor = "performance"

\* C7 as stated: every call of set_turbo_based_on_usage calls set_turbo
C7_TurboWrittenEveryCall == TurboCalled => turbo_write # "none"

\* C8: a persisted turbo override 'always' sets turbo on and 'never' sets it off,
\* whatever configuration, charging state, usage and temperature are
C8_TurboOverrideWins ==
    TurboCalled =>
        /\ turbo_override_file \in {"always", "always\n"}
              => turbo_write = "on" /\ result = "Ok"
        /\ turbo_override_file \in {"never", "never\n"}
              => turbo_write = "off" /\ result = "Ok"

\* C8 witness: the override beats the opposite setting of the active section
C8_Witness ==
    /\ TurboCalled
    /\ turbo_override_file = "always"
    /\ is_charging
    /\ config[<<"charger", "turbo">>] = "never"
    /\ core_temps = <<80, 80>>
    /\ turbo_write = "on"

\* C9: with an Auto override, 'always'/'never' in the active section decides turbo; any
\* other value there, and any value of the inactive section, leaves it to the automatic rule
C9_ConfiguredTurbo ==
    (TurboCalled /\ get_turbo_override = "Auto") =>
        LET conf == config[<<ActiveSection, "turbo">>]
        IN  /\ conf = "always" => turbo_write = "on" /\ reached = "turbo_config"
            /\ conf = "never" => turbo_write = "off" /\ reached = "turbo_config"
            /\ conf \notin {"always", "never"} => reached = "turbo_automatic"

\* C9 witness: 'never' for the charger beats 'always' for the battery, high usage, cool
C9_Witness ==
    /\ TurboCalled
    /\ turbo_override_file = NoFile
    /\ is_charging
    /\ config[<<"charger", "turbo">>] = "never"
    /\ config[<<"battery", "turbo">>] = "always"
    /\ cpu_usage = 76
    /\ core_temps = <<70, 70>>
    /\ turbo_write = "off"
    /\ reached = "turbo_config"

\* C10 as stated: under the automatic rule turbo is set from usage and the average
\* temperature of the cores with a reading
C10_AutomaticRule ==
    (TurboCalled /\ reached = "turbo_automatic") =>
        /\ (is_charging /\ cpu_usage > 25 /\ avg_temp_below_75(core_temps))
              => turbo_write = "on"
        /\ (is_charging /\ ~avg_temp_below_75(core_temps)) => turbo_write = "off"
        /\ (~is_charging /\ cpu_usage > 75) => turbo_write = "on"
        /\ (~is_charging /\ cpu_usage <= 75) => turbo_write = "off"

\* C11: when the target governor differs from the current one and the helper of
\* set_governor cannot be run or exits non-zero, set_autofreq returns an error for
\* that tick (and goes no further: turbo is not decided)
C11_GovernorWriteFailureIsError ==
    (pc # "idle" /\ governor_write # "none"
       /\ governor_status \in {"nonzero", "spawn error"}) =>
        /\ pc = "returned"
        /\ result = "Err"
        /\ reached = "set_governor"

\* C11 witness: the helper exits non-zero on a needed write, the tick returned Err
C11_Witness ==
    /\ pc = "returned"
    /\ target_governor = "performance"
    /\ current_governor = "powersave"
    /\ governor_write = "performance"
    /\ governor_status = "nonzero"
    /\ result = "Err"

\* C12: a failed turbo write is never an error of the tick: whatever set_turbo's
\* turbo() call did (write refused, read back failed, amd status unreadable, no
\* control file), a call that set turbo returned Ok, and an Err of set_autofreq
\* comes from the charging read or the governor write, before turbo is touched
C12_TurboFailureIsNotAnError ==
    /\ (TurboCalled /\ turbo_write # "none") => (pc = "returned" /\ result = "Ok")
    /\ result = "Err" => (reached \in {"charging", "set_governor"} /\ turbo_write = "none")

\* C12 witness: the write to the control file was refused and the tick returned Ok
C12_Witness ==
    /\ TurboCalled
    /\ turbo_write = "on"
    /\ turbo_outcome = "write failed"
    /\ turbo_file_value = 0
    /\ pc = "returned"
    /\ result = "Ok"

\* C13 as stated: once the loop runs, no failure inside a tick ends it, so the daemon
\* thread is never past the loop (main returned) nor stuck inside a tick
C13_LoopNeverEnds == pc \notin {"exited", "deadlock", "panicked"}

\* C14 as stated: no operation holds two of the program's mutexes at the same time
C14_OneMutexAtATime == Cardinality(held_most) <= 1

\* the stored text get_threshold(threshold_mode) looked at
StoredThreshold == config[<<"battery", threshold_key(threshold_mode)>>]

\* C15: get_threshold(mode) returns a stored integer of 0..100 unchanged, fails with
\* the range error for a stored integer outside 0..100, and returns 0 for 'start' and
\* 100 for 'stop' when nothing is stored
C15_Threshold ==
    threshold_mode \in {"start", "stop"} =>
        /\ StoredThreshold = NoOption =>
              /\ threshold_status = "Ok"
              /\ threshold_value = IF threshold_mode = "start" THEN 0 ELSE 100
        /\ StoredThreshold \in DOMAIN Int32Of =>
              LET v == Int32Of[StoredThreshold]
              IN  /\ v \in 0..100 => threshold_status = "Ok" /\ threshold_value = v
                  /\ v \notin 0..100 => threshold_status = "out of range"

\* C15 witness: a negative stop threshold is refused while the start default applies
C15_Witness ==
    /\ threshold_mode = "stop"
    /\ config[<<"battery", "charging_stop_threshold">>] = "-1"
    /\ config[<<"battery", "charging_start_threshold">>] = NoOption
    /\ threshold_status = "out of range"

\* C16: a get_refreshed_system call does the double-read exactly when more than the
\* refresh interval has passed since the last double-read ended, or when there was
\* none (the first call); so two calls at most one interval apart do at most one
C16_RefreshWhenStale ==
    /\ \A i \in 1..Len(calls) :
         calls[i].refreshed <=>
            (calls[i].prior = -1 \/ calls[i].at - calls[i].prior > RefreshInterval)
    /\ (Len(calls) = 2 /\ calls[1].at - calls[2].at <= RefreshInterval)
          => ~(calls[1].refreshed /\ calls[2].refreshed)

\* C16 witness: the first call read twice, and a call exactly one interval after it
\* ended was served from the cache
C16_Witness ==
    /\ Len(calls) = 2
    /\ calls[2].prior = -1
    /\ calls[2].refreshed
    /\ calls[1].at - calls[1].prior = RefreshInterval
    /\ ~calls[1].refreshed

\* the texts Ini::load accepts
ValidTexts == {t \in ConfigTexts : load_ok(text_file(t))}

\* C17: once set_path has returned Ok, a configuration file that holds valid content
\* (created or modified, before or after set_path) is eventually the snapshot the
\* accessors read, unless the file is changed again first
C17_ReloadEventually ==
    \A t \in ValidTexts :
        (set_path_result = "Ok" /\ config_file = text_file(t))
            ~> (config = loaded(text_file(t)) \/ config_file # text_file(t))

\* C17 witness: nothing was loaded at set_path, and the watcher has loaded the file
\* that was written afterwards
C17_Witness ==
    /\ set_path_result = "Ok"
    /\ last_reload.by = "watcher"
    /\ last_reload.loaded
    /\ last_reload.before = EmptyIni
    /\ config_file.exists
    /\ load_ok(config_file)
    /\ config = loaded(config_file)

\* C18: a reload that fails (content the parser rejects, file deleted) leaves the
\* snapshot as it was before, and reports no error: update_config returns Ok, the
\* callback returns nothing
C18_FailedReloadKeepsSnapshot ==
    (last_reload.by # "none" /\ ~last_reload.loaded) =>
        /\ config = last_reload.before
        /\ last_reload.returned # "Err"

\* C18 witness: the file was deleted, the callback ran, the loaded snapshot is still there
C18_Witness ==
    /\ last_reload.by = "watcher"
    /\ ~last_reload.loaded
    /\ ~config_file.exists
    /\ events = <<>>
    /\ config \in {loaded(text_file(t)) : t \in ValidTexts}

\* the snapshots a complete load produces, and the one of Config::new()
CompleteSnapshots == {EmptyIni} \cup {loaded(text_file(t)) : t \in ValidTexts}

\* C19: an accessor call that runs while the watcher reloads observes a complete
\* snapshot, the old one or the new one, never a part of the file
C19_SnapshotIsComplete == observed.snapshot \in CompleteSnapshots

\* C19 witness: an accessor ran while the callback had read a part of the file, and
\* observed the snapshot loaded before
C19_Witness ==
    /\ observed.called
    /\ observed.reloading
    /\ observed.snapshot # EmptyIni
    /\ watcher.pc = "loading"
    /\ watcher.new_config # observed.snapshot

\* C20: after a set_override that returned Ok, get_override reads Powersave for
\* 'powersave', Performance for 'performance' and Default for 'reset', which deletes
\* the file and succeeds when there is none; a file with any other token reads as
\* Default; the same for set_turbo_override with 'always', 'never' and 'auto'
C20_OverrideRoundTrip ==
    /\ override_call.result = "Ok" =>
          /\ override_call.value = "powersave" => get_override = "Powersave"
          /\ override_call.value = "performance" => get_override = "Performance"
          /\ override_call.value = "reset" =>
                get_override = "Default" /\ governor_override_file = NoFile
    /\ (override_call.value = "reset" /\ ~override_call.existed)
          => override_call.result = "Ok"
    /\ trim(governor_override_file) \notin {"powersave", "performance"}
          => get_override = "Default"
    /\ turbo_override_call.result = "Ok" =>
          /\ turbo_override_call.value = "always" => get_turbo_override = "Always"
          /\ turbo_override_call.value = "never" => get_turbo_override = "Never"
          /\ turbo_override_call.value = "auto" =>
                get_turbo_override = "Auto" /\ turbo_override_file = NoFile
    /\ (turbo_override_call.value = "auto" /\ ~turbo_override_call.existed)
          => turbo_override_call.result = "Ok"
    /\ trim(turbo_override_file) \notin {"always", "never"} => get_turbo_override = "Auto"

\* C20 witness: 'reset' with no override file succeeded, and turbo was set to 'always'
\* over a file that held 'never'
C20_Witness ==
    /\ override_call = [value |-> "reset", existed |-> FALSE, result |-> "Ok"]
    /\ governor_override_file = NoFile
    /\ get_override = "Default"
    /\ turbo_override_call = [value |-> "always", existed |-> TRUE, result |-> "Ok"]
    /\ turbo_override_file = "always"
    /\ get_turbo_override = "Always"

\* the entries of the last call's log that are calls of set_battery
ThresholdEntries ==
    {i \in DOMAIN battery_call.log : battery_call.log[i].target \in Modes}

\* C21: a setup of the Ideapad-Laptop variant with conservation mode enabled, asked
\* for by the configuration ("true") or read as "1" from the hardware toggle, issues
\* no charge-threshold write; the only write that can occur is the one of the toggle
C21_ConservationBlocksThresholds ==
    (/\ battery_call.op = "setup"
     /\ battery_call.variant = "IdeapadLaptop"
     /\ \/ conservation_option = "true"
        \/ conservation_file = "1" /\ "cat" \in programs)
        => ThresholdEntries = {}

\* C21 witness: thresholds are enabled, the battery has both threshold files, the
\* configuration asked to switch conservation off, the toggle refused and still reads
\* "1": the pass logged the toggle write and nothing else
C21_Witness ==
    /\ battery_call.op = "setup"
    /\ battery_call.variant = "IdeapadLaptop"
    /\ battery_call.result = "Ok"
    /\ battery_call.reported = "on"
    /\ get_bool_or_false(enable_thresholds)
    /\ conservation_option = "false"
    /\ conservation_file = "1"
    /\ power_supply.count > 0
    /\ \A mode \in Modes : "primary" \in threshold_layout[mode]
    /\ battery_call.log =
          <<[battery |-> NoBattery, target |-> "conservation", how |-> "rejected"]>>

\* C22: with enable_thresholds false or absent, setup of every variant returns success
\* and performs no write: no threshold write and no toggle write
C22_DisabledDoesNothing ==
    (/\ battery_call.op = "setup"
     /\ enable_thresholds \in FalseWords \cup {NoOption})
        => /\ battery_call.result = "Ok"
           /\ battery_call.log = <<>>

\* C22 witness: a setup of a variant on a machine where an enabled setup would write
\* (a battery with both threshold files, sh at hand), with the option absent
C22_Witness ==
    /\ battery_call.op = "setup"
    /\ battery_call.variant \in {"ThinkpadAcpi", "IdeapadLaptop"}
    /\ enable_thresholds = NoOption
    /\ "sh" \in programs
    /\ power_supply.count > 0
    /\ \A mode \in Modes : "primary" \in threshold_layout[mode]
    /\ battery_call.result = "Ok"
    /\ battery_call.log = <<>>

\* C23: in setup and print_thresholds of every variant a missing sysfs file and a
\* failed external write (sh cannot be run, or tee exits non-zero) are warnings only:
\* the call goes on and returns success, so battery_setup never fails for them
C23_FailuresAreWarnings ==
    (battery_call.op # "none" /\ ~get_batteries_fails) => battery_call.result = "Ok"

\* C24: print_thresholds of every variant reports, for each battery and for start and
\* stop, the primary file when it exists, otherwise the legacy file when that exists,
\* otherwise 'not found', and returns success
C24_PrimaryThenLegacy ==
    (/\ battery_call.op = "print"
     /\ battery_call.variant # "None"
     /\ "cat" \in programs
     /\ ~get_batteries_fails)
        => /\ battery_call.result = "Ok"
           /\ Len(battery_call.reports) = 2 * Len(get_batteries)
           /\ \A i \in DOMAIN battery_call.reports :
                 LET files == threshold_layout[battery_call.reports[i].mode]
                 IN  battery_call.reports[i].source =
                        IF "primary" \in files THEN "primary"
                        ELSE IF "legacy" \in files THEN "legacy"
                        ELSE "not found"

\* the first module of the fixed order that is loaded
FirstLoaded ==
    IF "ideapad_acpi" \in modules THEN "IdeapadAcpi"
    ELSE IF "ideapad_laptop" \in modules THEN "IdeapadLaptop"
    ELSE IF "thinkpad_acpi" \in modules THEN "ThinkpadAcpi"
    ELSE IF "asus_wmi" \in modules THEN "AsusWmi"
    ELSE "None"

\* C25: battery_setup and battery_get_thresholds act through exactly one variant, the
\* one of the first loaded module in the order ideapad_acpi, ideapad_laptop,
\* thinkpad_acpi, asus_wmi, and through none when none of the four is loaded
C25_FirstLoadedModule ==
    (battery_call.op # "none" /\ "lsmod" \in programs)
        => battery_call.variant = FirstLoaded

\* C26: on an unknown init system install and remove each abort with an error and
\* leave no partial state: no hook has run, the helper script is neither deployed nor
\* removed, no unit file is written or removed
C26_UnknownInitLeavesNothing ==
    (install_call.op # "none" /\ install_call.init = "unknown")
        => /\ install_call.result = "Err"
           /\ ~install_call.hook
           /\ ~install_call.deployed
           /\ helper_deployed = install_call.before.helper
           /\ service = install_call.before.service

\* C27: install is idempotent for every supported init system: install_daemon run
\* again after an install that succeeded returns success, leaves the installed state
\* as it was and skips the helper script, which is there already
C27_InstallIsIdempotent ==
    (install_call.op = "install" /\ install_call.again)
        => /\ install_call.result = "Ok"
           /\ ~install_call.deployed
           /\ helper_deployed = install_call.before.helper
           /\ service = install_call.before.service

\* C27 witness: a second install on runit, over the link the first one made
C27_Witness ==
    /\ install_call.op = "install"
    /\ install_call.again
    /\ install_call.init = "runit"
    /\ install_call.result = "Ok"
    /\ install_call.before.service.link
    /\ service = [unit |-> TRUE, link |-> TRUE, requested |-> TRUE]
    /\ helper_deployed

\* C28: a battery_info or get_battery_path call scans the power supplies only when
\* the cache was never computed or its paths are older than 60 s; any other call
\* returns the cached paths without a scan
C28_RescanOnlyWhenOld ==
    power_call.op \in {"battery_info", "get_battery_path"}
        => /\ power_call.scanned <=>
                 (power_call.first \/ power_call.elapsed > RescanInterval)
           /\ power_call.battery_path = path_cache.battery_path

\* C28 witness: a call exactly 60 s after the scan did not scan, and returned the
\* cached battery path although the battery had gone since
C28_Witness ==
    /\ power_call.op = "get_battery_path"
    /\ ~power_call.first
    /\ power_call.elapsed = RescanInterval
    /\ ~power_call.scanned
    /\ power_call.battery_path
    /\ ~power_call.present

C30_OnlyMainEndsTheProcess == process.pc = "ended" => process.by = "main"

(***************************************************************************)
(* C32: every call of set_autofreq returns, whatever the overrides, the    *)
(* configuration, the power source and the telemetry are: a call that has  *)
(* begun has handed Ok or Err to the loop, it is not stuck on a mutex.     *)
(***************************************************************************)
SetAutofreqBegun == reached # "none"

C32_SetAutofreqReturns == SetAutofreqBegun => result \in {"Ok", "Err"}

(***************************************************************************)
(* C39: with a Default governor override and at least one supported        *)
(* governor, the governor get_appropriate_governor returns is one of the   *)
(* supported governors (AVAILABLE_GOVERNORS_SORTED), for every usage,      *)
(* load, power source and configuration.                                   *)
(***************************************************************************)
C39_GovernorIsSupported ==
    (Decided /\ get_override = "Default" /\ Supported # {})
        => target_governor \in Supported

\* C39 witness: the active section configures a governor the kernel does not offer, the
\* kernel offers neither schedutil nor the governor the branch prefers, and the decision
\* is still one the kernel offers
C39_Witness ==
    /\ Decided
    /\ get_override = "Default"
    /\ get(ActiveSection, "governor", "") = "interactive"
    /\ Supported = {"userspace", "conservative"}
    /\ target_governor = "conservative"

(***************************************************************************)
(* C36: turbo() takes the first control file that exists, in the order     *)
(* intel_pstate/no_turbo, cpufreq/boost, amd_pstate/status. The no_turbo   *)
(* file is inverted, so after a successful turbo(Some(v)) the state read   *)
(* back is v with either file. With only amd_pstate/status, or no file,    *)
(* nothing is written and false is returned.                               *)
(***************************************************************************)
\* a call of set_autofreq that went as far as turbo(Some(value))
TurboAsked == TurboCalled /\ turbo_write # "none"

Requested == turbo_write = "on"

WrittenAndReadBack ==
    /\ control_file \in {"no_turbo", "boost"}
    /\ turbo_file_value = (IF Requested = (control_file = "boost") THEN 1 ELSE 0)
    /\ turbo_on = (IF Requested THEN "Some(true)" ELSE "Some(false)")
    /\ turbo_result = (IF Requested THEN "Ok(true)" ELSE "Ok(false)")

NoSwitch == "no_turbo" \notin turbo_files /\ "boost" \notin turbo_files

\* C36 as stated: without a switch the call returns false
C36_TurboRoundTrip ==
    TurboAsked =>
        /\ turbo_outcome = "written" => WrittenAndReadBack
        /\ NoSwitch => turbo_file_value = 0 /\ turbo_result = "Ok(false)"

\* C36 amended: without a switch the call returns false, or the error of reading
\* amd_pstate/status when that file exists and cannot be read
C36_TurboRoundTripOrReadError ==
    TurboAsked =>
        /\ turbo_outcome = "written" => WrittenAndReadBack
        /\ NoSwitch =>
             /\ turbo_file_value = 0
             /\ turbo_outcome \notin {"written", "write failed", "read back failed"}
             /\ IF turbo_outcome = "amd status unreadable"
                  THEN "amd_pstate" \in turbo_files /\ turbo_result = "Err"
                  ELSE turbo_result = "Ok(false)"

\* C36 witness: both switches exist, turbo is asked on, no_turbo is chosen and holds 0
C36_Witness ==
    /\ TurboAsked
    /\ turbo_files = {"no_turbo", "boost"}
    /\ Requested
    /\ turbo_outcome = "written"
    /\ turbo_file_value = 0
    /\ turbo_on = "Some(true)"

(***************************************************************************)
(* C33: in a tick of the daemon loop the decision is applied first and the *)
(* stats snapshot is persisted after it, so the stats file written in a    *)
(* tick shows the governor and the turbo state that the same tick applied. *)
(***************************************************************************)
\* the end of a tick that wrote the stats file and whose set_autofreq returned Ok
TickDone == pc = "returned" /\ stats_result = "Ok" /\ result = "Ok"

C33_StatsShowThisTick ==
    TickDone =>
        /\ stats_file.governor # "absent" => stats_file.governor = scaling_governor
        /\ stats_file.turbo # "absent" =>
              stats_file.turbo = (IF turbo_on = "Some(true)" THEN "On" ELSE "Off")

(***************************************************************************)
(* C34: an enabled setup goes through the batteries in order and calls,    *)
(* for each, set_battery for the start threshold and then for the stop     *)
(* threshold. A threshold file that does not exist makes that one call a   *)
(* warning without a write; the calls after it are still made.             *)
(***************************************************************************)
\* the set_battery calls of the last setup, in the order they were made
SetBatteryCalls == SelectSeq(battery_call.log, LAMBDA entry : entry.target \in Modes)

\* an enabled setup that came to its loop over the batteries and could start its commands
SetupLoopRan ==
    /\ battery_call.op = "setup"
    /\ battery_call.variant # "None"
    /\ get_bool_or_false(enable_thresholds)
    /\ power_supply.state = "listed"
    /\ battery_call.variant = "IdeapadLaptop" => battery_call.reported = "off"
    /\ battery_call.variant = "ThinkpadAcpi" => "sh" \in programs

C34_StartThenStop ==
    SetupLoopRan =>
        /\ battery_call.result = "Ok"
        /\ Len(SetBatteryCalls) = 2 * power_supply.count
        /\ \A i \in DOMAIN SetBatteryCalls :
              LET call == SetBatteryCalls[i]
              IN  /\ call.battery = ((i + 1) \div 2) - 1
                  /\ call.target = (IF i % 2 = 1 THEN "start" ELSE "stop")
                  /\ call.how = "missing" <=> "primary" \notin threshold_layout[call.target]

\* C34 witness: two batteries without a start threshold file; the start calls are
\* skipped, the stop threshold of each battery is written
C34_Witness ==
    /\ SetupLoopRan
    /\ battery_call.variant = "AsusWmi"
    /\ power_supply.count = 2
    /\ Len(SetBatteryCalls) = 4
    /\ SetBatteryCalls[1].how = "missing"
    /\ SetBatteryCalls[2].how = "written"
    /\ SetBatteryCalls[3].how = "missing"
    /\ SetBatteryCalls[4] = [battery |-> 1, target |-> "stop", how |-> "written"]

(***************************************************************************)
(* C35: the watcher is the only writer of the configuration snapshot:      *)
(* after construction no step of another thread, set_path and              *)
(* update_config and the accessors included, replaces or changes it.       *)
(***************************************************************************)
SnapshotReplaced == config' # config

\* the assignment of the callback, after a complete load
ByWatcherSwap ==
    /\ watcher.pc = "loading"
    /\ watcher.parsed = Len(watcher.text)
    /\ watcher'.pc = "waiting"

\* the load of set_path, on the thread of main before the watcher is created
BySetPath ==
    /\ set_path_result = "none"
    /\ set_path_result' # "none"
    /\ watcher.pc = "down"

\* C35 as stated: every replacement of the snapshot is the watcher's
C35_OnlyWatcherWrites == [][SnapshotReplaced => ByWatcherSwap]_vars

\* C35 amended: the snapshot is replaced by the watcher's assignment, and before the
\* watcher exists by the load of set_path; no accessor and no other step changes it
C35_WatcherOrSetPath == [][SnapshotReplaced => (ByWatcherSwap \/ BySetPath)]_vars

\* C35 witness: set_path has loaded a configuration, and the watcher has replaced it
C35_Witness ==
    /\ set_path_result = "Ok"
    /\ last_reload.by = "watcher"
    /\ last_reload.loaded
    /\ last_reload.before # EmptyIni
    /\ config # last_reload.before
    /\ observed.called

(***************************************************************************)
(* C40: the value setup hands to set_battery is within 0..100 whatever is  *)
(* stored: for a stored start or stop value that is out of range or not an *)
(* integer it is the default, 0 for start and 100 for stop, and setup does *)
(* not fail on it.                                                         *)
(***************************************************************************)
ThresholdDefault == IF threshold_mode = "start" THEN 0 ELSE 100

C40_WrittenThresholdInRange ==
    threshold_mode \in {"start", "stop"} =>
        /\ get_threshold_value \in 0..100
        /\ StoredThreshold \in NotInt32 => get_threshold_value = ThresholdDefault
        /\ (StoredThreshold \in DOMAIN Int32Of /\ Int32Of[StoredThreshold] \notin 0..100)
              => get_threshold_value = ThresholdDefault
        /\ (StoredThreshold \in DOMAIN Int32Of /\ Int32Of[StoredThreshold] \in 0..100)
              => get_threshold_value = Int32Of[StoredThreshold]

\* C40 witness: the stored stop threshold is 256, which is 0 as a u8; get_threshold
\* refuses it and 100 is written
C40_Witness ==
    /\ threshold_mode = "stop"
    /\ StoredThreshold = "256"
    /\ threshold_status = "out of range"
    /\ get_threshold_value = 100

(***************************************************************************)
(* C31: a sensor file that cannot be read or parsed produces no error:     *)
(* read_core_temp yields the core's value, else the package temperature,   *)
(* else 0, and the tick whose readings are missing still makes its         *)
(* governor and turbo decision.                                            *)
(***************************************************************************)
\* the call came to the temperatures, and a core has no reading
ReadingMissing ==
    /\ SetAutofreqBegun
    /\ reached = "turbo_automatic"
    /\ \E i \in DOMAIN core_temps : core_temps[i] = 0

C31_DecisionDespiteSensors ==
    ReadingMissing => pc = "returned" /\ result = "Ok" /\ target_governor # "none"

(***************************************************************************)
(* C37: the sensor paths are discovered when the cache is constructed and  *)
(* every later temperature read reads the cached files only; the sensors   *)
(* are scanned again only when the last scan is older than 300 s, and then *)
(* they are, at the next read.                                             *)
(***************************************************************************)
C37_RescanWhenOld ==
    temp_call.op # "none" =>
        /\ temp_call.scan = "first" => temp_call.age = 0
        /\ ~temp_rescan_due(temp_call.age)

(***************************************************************************)
(* C38: the start and the stop threshold that one setup pass writes for a  *)
(* battery come from the same configuration snapshot, also when the        *)
(* watcher reloads the configuration while setup runs.                     *)
(***************************************************************************)
C38_OneSnapshotPerPass ==
    setup_pass.pc = "done" => setup_pass.start_from = setup_pass.stop_from

====
